---- MODULE Spec2Model ----
(***************************************************************************)
(* A model of the ingest muxer of gravwell/ingest (muxer.go): the public   *)
(* API (Start, Close, WriteEntry, WriteBatch, NegotiateTag, the            *)
(* accessors), one connRoutine and one writeRelayRoutine per destination,  *)
(* recycleEntries, the emergency queue and the tag translators.            *)
(*                                                                         *)
(* LocalTagIds are 0-based as in the Go code; TLA+ sequences are 1-based,  *)
(* so the name of LocalTagId i is tags[i+1] and its remote id tt[i+1].     *)
(***************************************************************************)
EXTENDS Integers, Sequences, FiniteSets, TLC

\* ------------------------------------------------------------------------
\* Bounds of the model
\* ------------------------------------------------------------------------
NDest == 2          \* number of destinations (len(im.dests))
MaxEntries == 2     \* entries the producer hands to WriteEntry / WriteBatch
MaxNames == 2       \* tag names that exist (1..MaxNames); one is configured
MaxFail == 1        \* connection failures injected by the network
ChanSize == 1       \* MuxerConfig.ChannelSize
MaxPush == 260      \* pushes of the emergency queue scenario
MaxCfgTags == 3     \* length of a configured or cached tag list
MaxFatal == 2       \* failures up to which a connection may fail for good
MaxRecycled == 4    \* entries handed to recycleEntries on its own
MaxWtrs == 3         \* writers in the list of a Logger
MaxLines == 2        \* lines a writer of a Logger receives

\* ------------------------------------------------------------------------
\* Program constants
\* ------------------------------------------------------------------------
maxEmergencyListSize == 256
GravwellTagId == 65535

Dests == 1..NDest
Names == 1..MaxNames
EntryIds == 1..MaxEntries
NoEntry == [id |-> 0, tag |-> 0]
\* the log levels of the muxer
gravwellError == 3
gravwellWarn == 2
gravwellInfo == 1
gravwellOff == 0

\* The remote id the indexer of destination d assigns to a tag name.
\* Injective in the name, different for the two indexers.
RemoteId(d, name) == name + d

\* ------------------------------------------------------------------------
\* tagTrans
\* ------------------------------------------------------------------------
\* tagTrans.Translate: <<remote, ok>>
Translate(t, tag) ==
    IF tag = GravwellTagId THEN <<tag, TRUE>>
    ELSE IF tag >= Len(t) THEN <<t[1], FALSE>>
    ELSE <<t[tag + 1], TRUE>>

Reverse_noPassThrough(t, tag) ==
    IF \E i \in 1..Len(t) : t[i] = tag
    THEN (CHOOSE i \in 1..Len(t) :
             t[i] = tag /\ \A j \in 1..(i - 1) : t[j] # tag) - 1
    ELSE 0
\* tagTrans.Reverse: the first index holding the remote id, 0 when absent
Reverse(t, tag) ==
    IF tag = GravwellTagId THEN tag
    ELSE IF \E i \in 1..Len(t) : t[i] = tag
         THEN (CHOOSE i \in 1..Len(t) :
                  t[i] = tag /\ \A j \in 1..(i - 1) : t[j] # tag) - 1
         ELSE 0

\* tagTrans.RegisterTag: <<tt', ok>>
RegisterTag(t, local, remote) ==
    IF local # Len(t) THEN <<t, FALSE>> ELSE <<Append(t, remote), TRUE>>

ReverseAll(t, ents) == [i \in 1..Len(ents) |-> [ents[i] EXCEPT !.tag = Reverse(t, ents[i].tag)]]

\* ------------------------------------------------------------------------
\* emergencyQueue
\* ------------------------------------------------------------------------
\* emergencyQueue.push: [q, err]; err is TRUE for ErrEmergencyListOverflow
eqPush_front(q, e, ents) ==
    IF e = NoEntry /\ Len(ents) = 0 THEN [q |-> q, err |-> FALSE]
    ELSE IF Len(q) > maxEmergencyListSize THEN [q |-> q, err |-> TRUE]
    ELSE [q |-> <<[e |-> e, ents |-> ents]>> \o q, err |-> FALSE]
eqPush(q, e, ents) ==
    IF e = NoEntry /\ Len(ents) = 0 THEN [q |-> q, err |-> FALSE]
    ELSE IF Len(q) > maxEmergencyListSize THEN [q |-> q, err |-> TRUE]
    ELSE [q |-> Append(q, [e |-> e, ents |-> ents]), err |-> FALSE]

\* emergencyQueue.pop: [q, e, ents, ok]
eqPop(q) ==
    IF Len(q) = 0 THEN [q |-> q, e |-> NoEntry, ents |-> <<>>, ok |-> FALSE]
    ELSE [q |-> Tail(q), e |-> Head(q).e, ents |-> Head(q).ents, ok |-> TRUE]

\* ------------------------------------------------------------------------
\* IngestConnection, as the muxer uses it.  A connection is
\*   [st |-> "none" | "open" | "broken" | "closed", buf |-> unconfirmed entries]
\* Every call on a connection that is not open fails; a write that succeeds
\* appends to buf, a Sync that succeeds confirms buf at the indexer.
\* ------------------------------------------------------------------------
NoConn == [st |-> "none", buf |-> <<>>]
NewConn == [st |-> "open", buf |-> <<>>]
connOk(c) == c.st = "open"
connWriteEntry(c, e) == [c EXCEPT !.buf = Append(@, e)]
connWriteBatch(c, b) == [c EXCEPT !.buf = @ \o b]
connClose(c) == IF c.st = "none" THEN c ELSE [c EXCEPT !.st = "closed"]

\* translation helpers of the batch loops (writeRelayRoutine, clear)
FirstBad(t, b) ==
    IF \E i \in 1..Len(b) : ~Translate(t, b[i].tag)[2]
    THEN CHOOSE i \in 1..Len(b) :
            /\ ~Translate(t, b[i].tag)[2]
            /\ \A j \in 1..(i - 1) : Translate(t, b[j].tag)[2]
    ELSE 0
TranslateAll(t, b) == [j \in 1..Len(b) |-> [b[j] EXCEPT !.tag = Translate(t, @)[1]]]
\* entries before index i were translated and are reversed again
RestorePrefix(t, b, i) ==
    [j \in 1..Len(b) |->
        IF j < i THEN [b[j] EXCEPT !.tag = Reverse(t, Translate(t, @)[1])] ELSE b[j]]

\* emergencyQueue.clear(igst, tt): [q, c, ok]
\* ok0 is the value the named result ok holds when the iteration starts.
RECURSIVE eqClearFrom(_, _, _, _)
eqClearFrom(q, c, t, ok0) ==
    LET p == eqPop(q) IN
    IF ~p.ok THEN [q |-> q, c |-> c, ok |-> TRUE]
    ELSE
      LET tr == Translate(t, p.e.tag)
          eBad == p.e # NoEntry /\ ~tr[2]
          eT == [p.e EXCEPT !.tag = tr[1]]
          eFail == p.e # NoEntry /\ tr[2] /\ ~connOk(c)
          ok1 == IF p.e # NoEntry THEN tr[2] ELSE ok0
          c1 == IF p.e # NoEntry THEN connWriteEntry(c, eT) ELSE c
          bad == FirstBad(t, p.ents)
          ok2 == IF Len(p.ents) > 0 THEN TRUE ELSE ok1
      IN
      IF eBad THEN [q |-> eqPush(p.q, p.e, p.ents).q, c |-> c, ok |-> FALSE]
      ELSE IF eFail
      THEN [q |-> eqPush(p.q, [eT EXCEPT !.tag = Reverse(t, @)], p.ents).q,
            c |-> c, ok |-> ok1]
      ELSE IF Len(p.ents) = 0 THEN eqClearFrom(p.q, c1, t, ok1)
      ELSE IF bad # 0
      THEN [q |-> eqPush(p.q, NoEntry, RestorePrefix(t, p.ents, bad)).q,
            c |-> c1, ok |-> FALSE]
      ELSE IF ~connOk(c1)
      THEN [q |-> eqPush(p.q, NoEntry, ReverseAll(t, TranslateAll(t, p.ents))).q,
            c |-> c1, ok |-> ok2]
      ELSE eqClearFrom(p.q, connWriteBatch(c1, TranslateAll(t, p.ents)), t, ok2)

eqClear(q, c, t) == eqClearFrom(q, c, t, FALSE)

\* ------------------------------------------------------------------------
\* State
\* ------------------------------------------------------------------------
VARIABLES
    state,            \* im.state: "empty", "running", "closed"
    tags,             \* im.tags
    tagMap,           \* im.tagMap: name -> LocalTagId
    eChan, bChan,     \* im.eChan, im.bChan (buffered contents)
    chanClosed,       \* Close has closed eChan and bChan
    eq,               \* im.eq
    connHot, connDead,
    igst,             \* im.igst: per destination, is the slot non-nil
    tagTranslators,   \* im.tagTranslators: per destination, is the slot non-nil
    tt,               \* the translator variable of each connRoutine
    conn,             \* the current IngestConnection of each destination
    delivered,        \* entries each indexer has confirmed, in order
    errDest,          \* im.errDest (destinations)
    errChan,          \* number of errors buffered in im.errChan
    upChan,           \* number of values buffered in im.upChan, closed or not
    dieClosed,        \* Close has closed im.dieChan
    connErrNotif,     \* per destination [n, closed]
    ncc,              \* per destination [n, closed]: the connSet hand-off
    crPc, crIgst, crHold,   \* connRoutine: position, local igst # nil, recycle
    wPc, wHold,       \* writeRelayRoutine: position, item being recycled
    closePc,          \* position of the Close call
    prod,             \* the producer's pending write call
    ret,              \* the last return of a public call
    dropped,          \* entries discarded, with the reason
    orig,             \* for each entry id, the LocalTagId the producer gave
    nextId, nFail,
    cacheEnabled, cacheFileBacked, cacheRunning,   \* the fields of im
    cacheError,       \* im.cacheError # nil
    logLevel,         \* im.logLevel
    cacheSignal,      \* im.cacheSignal: [q, closed]
    cache,            \* the IngestCache: [open, active, blocks, tagList]
    cachePc, cacheBlk, \* cacheRoutine: position, block being unloaded
    wfh,              \* the pending WaitForHot call: [pc, to, at, hot, full]; hot
                      \* says that a connection went hot since the call began,
                      \* full that every target had failed when it began
    pushes,           \* emergencyQueue.push calls made: [n, overflow]
    mtx,              \* im.mtx: [w, r], the writer and the readers holding it
    call,             \* a public call taken step by step: [op, pc, name, tg, k, count]
    logger            \* a Logger of package log and its writers: [wtrs, lvl, hot,
                      \* closes, lines, ret, closedRet, exited]

vars == <<state, tags, tagMap, eChan, bChan, chanClosed, eq, connHot, connDead,
          igst, tagTranslators, tt, conn, delivered, errDest, errChan, upChan,
          dieClosed, connErrNotif, ncc, crPc, crIgst, crHold, wPc, wHold,
          closePc, prod, ret, dropped, orig, nextId, nFail,
          cacheEnabled, cacheFileBacked, cacheRunning, cacheError, cacheSignal, cache,
          cachePc, cacheBlk, wfh, pushes, mtx, call, logLevel, logger>>

tagVars == <<tags, tagMap>>
chanVars == <<eChan, bChan, chanClosed>>
cntVars == <<connHot, connDead>>
slotVars == <<igst, tagTranslators>>
errVars == <<errDest, errChan>>
sigVars == <<connErrNotif, ncc>>
crVars == <<crPc, crIgst, crHold>>
wVars == <<wPc, wHold>>
ghostVars == <<orig, nextId, nFail>>
cfgVars == <<cacheEnabled, cacheFileBacked, logLevel>>
cacheVars == <<cacheRunning, cacheSignal, cache, cachePc, cacheBlk>>
apiVars == <<wfh, pushes>>
lockVars == <<mtx, call>>

\* im.mtx held by nobody; no public call under way step by step
Unlocked == [w |-> "none", r |-> {}]
NoCall == [op |-> "none", pc |-> "idle", name |-> 0, tg |-> 0, k |-> 0, count |-> 0]
NoHold == [e |-> NoEntry, ents |-> <<>>, fired |-> FALSE]
NoRet == [op |-> "none", err |-> "nil", val |-> 0, at |-> "empty"]
Idle == [pc |-> "idle", op |-> "none", e |-> NoEntry, ents |-> <<>>, at |-> "empty"]

\* package log: the levels
OFF == 0
DEBUG == 1
INFO == 2
WARN == 3
ERROR == 4
CRITICAL == 5
\* the writers handed to a Logger; "nil" is the nil writer
LogWriters == {"w1", "w2"}
NoLogRet == [op |-> "none", err |-> "nil", w |-> "none", val |-> 0]
\* New: a logger with the given writer at level INFO.  Next to the fields
\* of the Logger the record counts the Close calls and the lines every
\* writer has received, and holds the last return, whether a Close call
\* has returned, and whether Fatal has ended the process
New(wtr) ==
    [wtrs |-> <<wtr>>, lvl |-> INFO, hot |-> TRUE,
     closes |-> [w \in LogWriters |-> 0], lines |-> [w \in LogWriters |-> 0],
     ret |-> NoLogRet, closedRet |-> FALSE, exited |-> FALSE]
\* Logger.ready returns nil
ready_always(l) == TRUE
ready(l) == ~(~l.hot \/ Len(l.wtrs) = 0)
\* Level.Valid
Valid(lvl) == lvl \in {OFF, DEBUG, INFO, WARN, ERROR, CRITICAL}
\* the number of times writer w stands in the list of the logger
Attached(l, w) == Cardinality({i \in DOMAIN l.wtrs : l.wtrs[i] = w})

\* the lifecycle state a public call finds; "closing" is the closed state
\* before the first Close has returned
At == IF state = "closed" /\ closePc \in {"wait", "waitCache", "final"}
      THEN "closing" ELSE state
Ret(op, err, val) == [op |-> op, err |-> err, val |-> val, at |-> At]

Range(f) == {f[x] : x \in DOMAIN f}
LastIndex(sq, v) == CHOOSE i \in 1..Len(sq) : sq[i] = v /\ \A j \in (i + 1)..Len(sq) : sq[j] # v

\* newIngestMuxer, the tag list.  With a cache that holds entries and a
\* stored tag list, the stored list followed by the configured tags it
\* lacks; otherwise the configured tags as they are given
RECURSIVE appendMissing(_, _)
appendMissing(ct, lt) ==
    IF Len(lt) = 0 THEN ct
    ELSE appendMissing(IF Head(lt) \in Range(ct) THEN ct ELSE Append(ct, Head(lt)), Tail(lt))
localTags(ce, cfg, ctags) == IF ce /\ Len(ctags) > 0 THEN appendMissing(ctags, cfg) ELSE cfg

\* the loop "for i, v := range localTags { tagMap[v] = EntryTag(i) }"
buildTagMap(tg) == [n \in Range(tg) |-> LastIndex(tg, n) - 1]

\* newIngestMuxer: the muxer after construction.  ce is
\* MuxerConfig.EnableCache, fb is CacheConfig.FileBackingLocation # "", cfg
\* is MuxerConfig.Tags, ctags is the tag list stored in a cache that holds
\* entries (empty when it holds none)
newIngestMuxerWith(ce, fb, cfg, ctags, lvl) ==
    /\ cacheEnabled = ce /\ cacheFileBacked = fb
    /\ logLevel = lvl
    /\ wfh = [pc |-> "idle", to |-> FALSE, at |-> "empty", hot |-> FALSE, full |-> FALSE]
    /\ pushes = [n |-> 0, overflow |-> 0, base |-> 0]
    /\ mtx = Unlocked /\ call = NoCall
    /\ logger = New("w1")
    /\ cacheRunning = FALSE
    /\ cacheError = FALSE
    /\ cacheSignal = [q |-> <<>>, closed |-> FALSE]
    /\ cache = [open |-> ce, active |-> FALSE, blocks |-> <<>>,
                tagList |-> IF ce THEN localTags(ce, cfg, ctags) ELSE <<>>]
    /\ cachePc = "off" /\ cacheBlk = <<>>
    /\ state = "empty"
    /\ tags = localTags(ce, cfg, ctags)
    /\ tagMap = buildTagMap(localTags(ce, cfg, ctags))
    /\ eChan = <<>> /\ bChan = <<>> /\ chanClosed = FALSE
    /\ eq = <<>>
    /\ connHot = 0 /\ connDead = 0
    /\ igst = <<>> /\ tagTranslators = <<>>
    /\ tt = [d \in Dests |-> <<>>]
    /\ conn = [d \in Dests |-> NoConn]
    /\ delivered = [d \in Dests |-> <<>>]
    /\ errDest = <<>> /\ errChan = 0
    /\ upChan = [n |-> 0, closed |-> FALSE]
    /\ dieClosed = FALSE
    /\ connErrNotif = [d \in Dests |-> [n |-> 0, closed |-> FALSE]]
    /\ ncc = [d \in Dests |-> [n |-> 0, closed |-> FALSE]]
    /\ crPc = [d \in Dests |-> "off"] /\ crIgst = [d \in Dests |-> FALSE]
    /\ crHold = [d \in Dests |-> NoHold]
    /\ wPc = [d \in Dests |-> "off"] /\ wHold = [d \in Dests |-> NoHold]
    /\ closePc = "idle"
    /\ prod = Idle
    /\ ret = NoRet
    /\ dropped = {}
    /\ orig = [i \in EntryIds |-> 0]
    /\ nextId = 1 /\ nFail = 0

\* the muxer after construction with one configured tag and nothing cached
\* ... with MuxerConfig.LogLevel "OFF"
newIngestMuxerFrom(ce, fb, cfg, ctags) == newIngestMuxerWith(ce, fb, cfg, ctags, gravwellOff)
newIngestMuxer(ce, fb) == newIngestMuxerFrom(ce, fb, <<1>>, <<>>)

Init == newIngestMuxer(FALSE, FALSE)

\* ------------------------------------------------------------------------
\* Public API
\* ------------------------------------------------------------------------
\* Start (with the start of each connRoutine: it makes its two channels,
\* starts its writeRelayRoutine and sends itself the first notification)
StartReady_anyState == Len(igst) = 0
\* the test at the top of Start
StartReady == state = "empty" /\ Len(igst) = 0

Start ==
    IF ~StartReady
    THEN /\ ret' = Ret("Start", "NotReady", 0)
         /\ UNCHANGED <<state, tagVars, chanVars, eq, cntVars, slotVars, tt, conn,
                        delivered, errVars, upChan, dieClosed, sigVars, crVars,
                        wVars, closePc, prod, dropped, ghostVars, cfgVars, logger, lockVars, cacheError, apiVars, cacheVars>>
    ELSE /\ ret' = Ret("Start", "nil", 0)
         /\ cacheRunning' = cacheEnabled
         /\ cachePc' = IF cacheEnabled THEN "start" ELSE cachePc
         /\ igst' = [d \in Dests |-> FALSE]
         /\ tagTranslators' = [d \in Dests |-> FALSE]
         /\ connDead' = NDest
         /\ crPc' = [d \in Dests |-> "wait"]
         /\ wPc' = [d \in Dests |-> "first"]
         /\ connErrNotif' = [d \in Dests |-> [n |-> 1, closed |-> FALSE]]
         /\ state' = "running"
         /\ UNCHANGED <<tagVars, chanVars, eq, connHot, tt, conn, delivered, errVars,
                        upChan, dieClosed, ncc, crIgst, crHold, wHold, closePc, prod,
                        dropped, ghostVars, cfgVars, logger, lockVars, cacheError, apiVars, cacheSignal, cache, cacheBlk>>

\* the write calls that take one entry and those that take a batch
EntryOps == {"WriteEntry", "WriteEntryContext", "WriteEntryTimeout", "Write", "WriteContext"}
BatchOps == {"WriteBatch", "WriteBatchContext"}
\* the calls whose send is a select with a context or a timer
AbortOps == {"WriteEntryContext", "WriteEntryTimeout", "WriteContext", "WriteBatchContext"}

\* the entries of a pending call or of an item being recycled
HoldEntries(h) == (IF h.e # NoEntry THEN <<h.e>> ELSE <<>>) \o h.ents

runok_notClosed == state # "closed"
\* runok := im.state == running, under the read lock
runok == state = "running"

\* WriteEntry and its variants, up to the channel send: the state check
\* under the read lock.  A return carries the number of entries offered.
WriteEntry(op, tag) ==
    /\ prod.pc = "idle"
    /\ runok => nextId <= MaxEntries
    /\ IF ~runok
       THEN /\ ret' = Ret(op, "NotRunning", 1)
            /\ UNCHANGED <<prod, orig, nextId>>
       ELSE /\ prod' = [pc |-> "sendE", op |-> op, e |-> [id |-> nextId, tag |-> tag],
                        ents |-> <<>>, at |-> At]
            /\ orig' = [orig EXCEPT ![nextId] = tag]
            /\ nextId' = nextId + 1
            /\ UNCHANGED ret
    /\ UNCHANGED <<state, tagVars, chanVars, eq, cntVars, slotVars, tt, conn, delivered,
                   errVars, upChan, dieClosed, sigVars, crVars, wVars, closePc,
                   dropped, nFail, cfgVars, logger, lockVars, cacheError, apiVars, cacheVars>>

\* a write call handed the nil entry returns nil before the state is looked at
WriteNil(op) ==
    /\ prod.pc = "idle"
    /\ ret' = Ret(op, "nil", 0)
    /\ UNCHANGED <<state, tagVars, chanVars, eq, cntVars, slotVars, tt, conn, delivered,
                   errVars, upChan, dieClosed, sigVars, crVars, wVars, closePc, prod,
                   dropped, ghostVars, cfgVars, logger, lockVars, cacheError, apiVars, cacheVars>>

sendRoom_always(ch) == TRUE
\* a send on a buffered channel goes through when the buffer has room
sendRoom(ch) == Len(ch) < ChanSize

\* im.eChan <- e; a send on a closed channel panics
WriteEntrySend ==
    /\ prod.pc = "sendE"
    /\ IF chanClosed
       THEN /\ prod' = [prod EXCEPT !.pc = "panic"]
            /\ UNCHANGED <<eChan, ret>>
       ELSE /\ sendRoom(eChan)
            /\ eChan' = Append(eChan, prod.e)
            /\ prod' = Idle
            /\ ret' = [op |-> prod.op, err |-> "nil", val |-> Len(HoldEntries(prod)), at |-> prod.at]
    /\ UNCHANGED <<state, tagVars, bChan, chanClosed, eq, cntVars, slotVars, tt, conn,
                   delivered, errVars, upChan, dieClosed, sigVars, crVars, wVars,
                   closePc, dropped, ghostVars, cfgVars, logger, lockVars, cacheError, apiVars, cacheVars>>

\* WriteBatch and WriteBatchContext, up to the channel send; an empty batch
\* returns nil before the state is looked at
WriteBatch(op, tg) ==
    /\ prod.pc = "idle"
    /\ runok => nextId + Len(tg) - 1 <= MaxEntries
    /\ IF Len(tg) = 0
       THEN /\ ret' = Ret(op, "nil", 0)
            /\ UNCHANGED <<prod, orig, nextId>>
       ELSE IF ~runok
       THEN /\ ret' = Ret(op, "NotRunning", Len(tg))
            /\ UNCHANGED <<prod, orig, nextId>>
       ELSE /\ prod' = [pc |-> "sendB", op |-> op, e |-> NoEntry, at |-> At,
                        ents |-> [i \in 1..Len(tg) |-> [id |-> nextId + i - 1, tag |-> tg[i]]]]
            /\ orig' = [i \in EntryIds |->
                          IF i >= nextId /\ i < nextId + Len(tg)
                          THEN tg[i - nextId + 1] ELSE orig[i]]
            /\ nextId' = nextId + Len(tg)
            /\ UNCHANGED ret
    /\ UNCHANGED <<state, tagVars, chanVars, eq, cntVars, slotVars, tt, conn, delivered,
                   errVars, upChan, dieClosed, sigVars, crVars, wVars, closePc,
                   dropped, nFail, cfgVars, logger, lockVars, cacheError, apiVars, cacheVars>>

\* im.bChan <- b
WriteBatchSend ==
    /\ prod.pc = "sendB"
    /\ IF chanClosed
       THEN /\ prod' = [prod EXCEPT !.pc = "panic"]
            /\ UNCHANGED <<bChan, ret>>
       ELSE /\ sendRoom(bChan)
            /\ bChan' = Append(bChan, prod.ents)
            /\ prod' = Idle
            /\ ret' = [op |-> prod.op, err |-> "nil", val |-> Len(HoldEntries(prod)), at |-> prod.at]
    /\ UNCHANGED <<state, tagVars, eChan, chanClosed, eq, cntVars, slotVars, tt, conn,
                   delivered, errVars, upChan, dieClosed, sigVars, crVars, wVars,
                   closePc, dropped, ghostVars, cfgVars, logger, lockVars, cacheError, apiVars, cacheVars>>

\* the other case of the select of a context or timeout variant: the
\* context is cancelled or the timer fires, and the item is not enqueued
WriteAbort ==
    /\ prod.pc \in {"sendE", "sendB"}
    /\ prod.op \in AbortOps
    /\ prod' = Idle
    /\ ret' = [op |-> prod.op, err |-> IF prod.op = "WriteEntryTimeout" THEN "WriteTimeout" ELSE "ctx",
               val |-> Len(HoldEntries(prod)), at |-> prod.at]
    /\ UNCHANGED <<state, tagVars, chanVars, eq, cntVars, slotVars, tt, conn, delivered,
                   errVars, upChan, dieClosed, sigVars, crVars, wVars, closePc,
                   dropped, ghostVars, cfgVars, logger, lockVars, cacheError, apiVars, cacheVars>>

\* the loop "for i, v := range im.tags { im.tagMap[v] = EntryTag(i) }"
RebuildTagMap_oneBased(tm, tg) ==
    [n \in (DOMAIN tm) \cup Range(tg) |->
        IF n \in Range(tg) THEN LastIndex(tg, n) ELSE tm[n]]
RebuildTagMap(tm, tg) ==
    [n \in (DOMAIN tm) \cup Range(tg) |->
        IF n \in Range(tg) THEN LastIndex(tg, n) - 1 ELSE tm[n]]

NegotiateOn_keepOpen(d, tg, name) ==
    IF ~igst[d] \/ ~connOk(conn[d]) \/ ~tagTranslators[d] THEN <<conn[d], tt[d]>>
    ELSE <<conn[d], RegisterTag(tt[d], tg, RemoteId(d, name))[1]>>
\* the body of the loop over im.igst in NegotiateTag, for one destination:
\* <<connection, translator>> after it
NegotiateOn(d, tg, name) ==
    IF ~igst[d] THEN <<conn[d], tt[d]>>
    ELSE IF ~connOk(conn[d]) THEN <<connClose(conn[d]), tt[d]>>
    ELSE IF ~tagTranslators[d] THEN <<connClose(conn[d]), tt[d]>>
    ELSE LET r == RegisterTag(tt[d], tg, RemoteId(d, name)) IN
         IF r[2] THEN <<conn[d], r[1]>> ELSE <<connClose(conn[d]), tt[d]>>

\* NegotiateTag(name), the whole call: it holds the write lock throughout
NegotiateTag_noLookup(name) ==
    /\ IF FALSE
       THEN /\ ret' = Ret("NegotiateTag", "nil", tagMap[name])
            /\ UNCHANGED <<tagVars, conn, tt, cache>>
       ELSE LET ntags == Append(tags, name)
                nmap == RebuildTagMap(tagMap, ntags)
                stored == cacheEnabled /\ cacheFileBacked
            IN
            /\ tags' = ntags
            /\ tagMap' = nmap
            /\ IF stored /\ ~cache.open
               THEN /\ ret' = Ret("NegotiateTag", "cache", 0)
                    /\ UNCHANGED <<conn, tt, cache>>
               ELSE /\ cache' = IF stored THEN [cache EXCEPT !.tagList = ntags] ELSE cache
                    /\ conn' = [d \in Dests |->
                                  IF d \in DOMAIN igst THEN NegotiateOn(d, nmap[name], name)[1]
                                  ELSE conn[d]]
                    /\ tt' = [d \in Dests |->
                                  IF d \in DOMAIN igst THEN NegotiateOn(d, nmap[name], name)[2]
                                  ELSE tt[d]]
                    /\ ret' = Ret("NegotiateTag", "nil", nmap[name])
    /\ UNCHANGED <<state, chanVars, eq, cntVars, slotVars, delivered, errVars, upChan,
                   dieClosed, sigVars, crVars, wVars, closePc, prod, dropped,
                   ghostVars, cfgVars, logger, lockVars, cacheError, apiVars, cacheRunning, cacheSignal, cachePc, cacheBlk>>
NegotiateTag(name) ==
    /\ IF name \in DOMAIN tagMap
       THEN /\ ret' = Ret("NegotiateTag", "nil", tagMap[name])
            /\ UNCHANGED <<tagVars, conn, tt, cache>>
       ELSE LET ntags == Append(tags, name)
                nmap == RebuildTagMap(tagMap, ntags)
                stored == cacheEnabled /\ cacheFileBacked
            IN
            /\ tags' = ntags
            /\ tagMap' = nmap
            /\ IF stored /\ ~cache.open
               THEN /\ ret' = Ret("NegotiateTag", "cache", 0)
                    /\ UNCHANGED <<conn, tt, cache>>
               ELSE /\ cache' = IF stored THEN [cache EXCEPT !.tagList = ntags] ELSE cache
                    /\ conn' = [d \in Dests |->
                                  IF d \in DOMAIN igst THEN NegotiateOn(d, nmap[name], name)[1]
                                  ELSE conn[d]]
                    /\ tt' = [d \in Dests |->
                                  IF d \in DOMAIN igst THEN NegotiateOn(d, nmap[name], name)[2]
                                  ELSE tt[d]]
                    /\ ret' = Ret("NegotiateTag", "nil", nmap[name])
    /\ UNCHANGED <<state, chanVars, eq, cntVars, slotVars, delivered, errVars, upChan,
                   dieClosed, sigVars, crVars, wVars, closePc, prod, dropped,
                   ghostVars, cfgVars, logger, lockVars, cacheError, apiVars, cacheRunning, cacheSignal, cachePc, cacheBlk>>

\* ------------------------------------------------------------------------
\* The network: an open connection breaks
\* ------------------------------------------------------------------------
ConnBreak(d) ==
    /\ nFail < MaxFail
    /\ conn[d].st = "open"
    /\ conn' = [conn EXCEPT ![d].st = "broken"]
    /\ nFail' = nFail + 1
    /\ UNCHANGED <<state, tagVars, chanVars, eq, cntVars, slotVars, tt, delivered,
                   errVars, upChan, dieClosed, sigVars, crVars, wVars, closePc, prod,
                   ret, dropped, orig, nextId, cfgVars, logger, lockVars, cacheError, apiVars, cacheVars>>

\* ------------------------------------------------------------------------
\* goHot, goDead, connFailed
\* ------------------------------------------------------------------------
\* the two atomic updates of goHot and of goDead, in the order of the code;
\* other routines run between the first and the second
goHot_connDead(dead) == dead - 1
goHot_connHot(hot) == hot + 1
goDead_connHot(hot) == hot - 1
goDead_connDead_lost(dead) == dead
goDead_connDead(dead) == dead + 1

\* startCache / stopCache: a non-blocking send on cacheSignal
sigSend_dropped(cs, v) == cs
sigSend(cs, v) ==
    IF cacheRunning /\ Len(cs.q) < 1 THEN [cs EXCEPT !.q = Append(@, v)] ELSE cs
\* the non-blocking send on a capacity-1 channel of tokens
trySend_lost(ch) == ch
trySend(ch) == IF ch.n < 1 THEN [ch EXCEPT !.n = 1] ELSE ch

newTagTrans_mapOrder(d) ==
    [i \in 1..Cardinality(DOMAIN tagMap) |->
        LET v == Cardinality(DOMAIN tagMap) - i IN
        IF \E k \in DOMAIN tagMap : tagMap[k] = v
        THEN RemoteId(d, CHOOSE k \in DOMAIN tagMap : tagMap[k] = v)
        ELSE 0]
\* newTagTrans: one slot per entry of im.tagMap, filled with the remote id
\* the connection returns for the name (slots no name maps to stay 0)
newTagTrans(d) ==
    [i \in 1..Cardinality(DOMAIN tagMap) |->
        IF \E k \in DOMAIN tagMap : tagMap[k] = i - 1
        THEN RemoteId(d, CHOOSE k \in DOMAIN tagMap : tagMap[k] = i - 1)
        ELSE 0]

OverflowDrops(h) ==
    {[id |-> h.ents[i].id, why |-> "overflow", known |-> TRUE] : i \in 1..Len(h.ents)}
      \cup (IF h.e # NoEntry THEN {[id |-> h.e.id, why |-> "overflow", known |-> TRUE]}
            ELSE {})

\* recycleEntries, before its first select: the tags are reversed through
\* tt (those of ents when reverseTags is set, that of e always)
recycleEntries_asWritten(e, ents, t, reverseTags) ==
    [e |-> e, ents |-> ents, fired |-> FALSE]
recycleEntries(e, ents, t, reverseTags) ==
    [e |-> IF e # NoEntry THEN [e EXCEPT !.tag = Reverse(t, @)] ELSE e,
     ents |-> IF Len(ents) > 0 /\ reverseTags THEN ReverseAll(t, ents) ELSE ents,
     fired |-> FALSE]

\* ------------------------------------------------------------------------
\* connRoutine
\* ------------------------------------------------------------------------
\* the select on connErrNotif fires: close the old connection, and the
\* first half of goDead (the atomic decrement of connHot, with startCache)
CRNotified(d) ==
    /\ crPc[d] = "wait"
    /\ connErrNotif[d].n > 0 \/ connErrNotif[d].closed
    /\ LET ok == connErrNotif[d].n > 0 IN
       /\ connErrNotif' = [connErrNotif EXCEPT ![d].n = 0]
       /\ conn' = IF crIgst[d] THEN [conn EXCEPT ![d] = connClose(@)] ELSE conn
       /\ IF ~ok \/ crIgst[d]
          THEN /\ connHot' = goDead_connHot(connHot)
               /\ cacheSignal' = IF goDead_connHot(connHot) = 0 THEN sigSend(cacheSignal, TRUE)
                                 ELSE cacheSignal
               /\ crPc' = [crPc EXCEPT ![d] = IF ok THEN "dead" ELSE "deadClosed"]
          ELSE /\ crPc' = [crPc EXCEPT ![d] = "connect"]
               /\ UNCHANGED <<connHot, cacheSignal>>
    /\ UNCHANGED <<state, tagVars, chanVars, eq, connDead, slotVars, tt, delivered,
                   errVars, upChan, dieClosed, ncc, crIgst, crHold, wVars, closePc,
                   prod, ret, dropped, ghostVars, cfgVars, logger, lockVars, cacheError, apiVars, cacheRunning, cache,
                   cachePc, cacheBlk>>

\* the notification channel was closed: second half of goDead, connFailed,
\* return (close(ncc), wg.Done)
CRDeadClosed(d) ==
    /\ crPc[d] = "deadClosed"
    /\ errChan < NDest
    /\ connDead' = goDead_connDead(connDead)
    /\ errDest' = Append(errDest, d)
    /\ errChan' = errChan + 1
    /\ ncc' = [ncc EXCEPT ![d].closed = TRUE]
    /\ crPc' = [crPc EXCEPT ![d] = "done"]
    /\ UNCHANGED <<state, tagVars, chanVars, eq, connHot, slotVars, tt, conn, delivered,
                   upChan, dieClosed, connErrNotif, crIgst, crHold, wVars, closePc,
                   prod, ret, dropped, ghostVars, cfgVars, logger, lockVars, cacheError, apiVars, cacheVars>>

\* a reconnect was requested: second half of goDead, clear the slots, take
\* the outstanding entries and enter recycleEntries(nil, ents, &tt, true)
CRDead(d) ==
    /\ crPc[d] = "dead"
    /\ connDead' = goDead_connDead(connDead)
    /\ igst' = [igst EXCEPT ![d] = FALSE]
    /\ tagTranslators' = [tagTranslators EXCEPT ![d] = FALSE]
    /\ conn' = [conn EXCEPT ![d].buf = <<>>]
    /\ IF Len(conn[d].buf) = 0
       THEN /\ crPc' = [crPc EXCEPT ![d] = "connect"]
            /\ UNCHANGED crHold
       ELSE /\ crPc' = [crPc EXCEPT ![d] = "recycle"]
            /\ crHold' = [crHold EXCEPT ![d] =
                             recycleEntries(NoEntry, conn[d].buf, tt[d], TRUE)]
    /\ UNCHANGED <<state, tagVars, chanVars, eq, connHot, tt, delivered, errVars,
                   upChan, dieClosed, sigVars, crIgst, wVars, closePc, prod, ret,
                   dropped, ghostVars, cfgVars, logger, lockVars, cacheError, apiVars, cacheVars>>

\* recycleEntries in the connRoutine: the batch goes to bChan, or to the
\* emergency queue when the channel stayed full until the timer fired
CRRecycle(d) ==
    /\ crPc[d] = "recycle"
    /\ IF Len(bChan) < ChanSize
       THEN /\ ~chanClosed
            /\ bChan' = Append(bChan, crHold[d].ents)
            /\ UNCHANGED <<eq, dropped>>
       ELSE LET r == eqPush(eq, NoEntry, crHold[d].ents) IN
            /\ eq' = r.q
            /\ dropped' = IF r.err THEN dropped \cup OverflowDrops(crHold[d]) ELSE dropped
            /\ UNCHANGED bChan
    /\ crHold' = [crHold EXCEPT ![d] = NoHold]
    /\ crPc' = [crPc EXCEPT ![d] = "connect"]
    /\ UNCHANGED <<state, tagVars, eChan, chanClosed, cntVars, slotVars, tt, conn,
                   delivered, errVars, upChan, dieClosed, sigVars, crIgst, wVars,
                   closePc, prod, ret, ghostVars, cfgVars, logger, lockVars, cacheError, apiVars, cacheVars>>

\* getConnection: InitializeConnection and newTagTrans under the read lock
CRConnect(d) ==
    /\ crPc[d] = "connect"
    /\ Cardinality(DOMAIN tagMap) > 0
    /\ conn' = [conn EXCEPT ![d] = NewConn]
    /\ tt' = [tt EXCEPT ![d] = newTagTrans(d)]
    /\ crPc' = [crPc EXCEPT ![d] = "identify"]
    /\ UNCHANGED <<state, tagVars, chanVars, eq, cntVars, slotVars, delivered, errVars,
                   upChan, dieClosed, sigVars, crIgst, crHold, wVars, closePc, prod,
                   ret, dropped, ghostVars, cfgVars, logger, lockVars, cacheError, apiVars, cacheVars>>

\* getConnection returns an error (a fatal error of InitializeConnection, or
\* the die signal during the retry wait); connRoutine: connFailed, return
CRConnectFailOn(d, budget) ==
    /\ crPc[d] = "connect"
    /\ \/ dieClosed /\ UNCHANGED nFail
       \/ nFail < budget /\ nFail' = nFail + 1
    /\ errChan < NDest
    /\ errDest' = Append(errDest, d)
    /\ errChan' = errChan + 1
    /\ ncc' = [ncc EXCEPT ![d].closed = TRUE]
    /\ crPc' = [crPc EXCEPT ![d] = "done"]
    /\ UNCHANGED <<state, tagVars, chanVars, eq, cntVars, slotVars, tt, conn, delivered,
                   upChan, dieClosed, connErrNotif, crIgst, crHold, wVars, closePc,
                   prod, ret, dropped, orig, nextId, cfgVars, logger, lockVars, cacheError, apiVars, cacheVars>>
CRConnectFail_noReturn(d) ==
    /\ crPc[d] = "connect"
    /\ \/ dieClosed /\ UNCHANGED nFail
       \/ nFail < MaxFail /\ nFail' = nFail + 1
    /\ errChan < NDest
    /\ errDest' = Append(errDest, d)
    /\ errChan' = errChan + 1
    /\ UNCHANGED <<state, tagVars, chanVars, eq, cntVars, slotVars, tt, conn, delivered,
                   upChan, dieClosed, sigVars, crVars, wVars, closePc,
                   prod, ret, dropped, orig, nextId, cfgVars, logger, lockVars, cacheError, apiVars, cacheVars>>
CRConnectFail(d) == CRConnectFailOn(d, MaxFail)

\* getConnection: IdentifyIngester or IngestOK fails, the loop starts over
CRIdentifyFail(d) ==
    /\ crPc[d] = "identify"
    /\ nFail < MaxFail
    /\ nFail' = nFail + 1
    /\ crPc' = [crPc EXCEPT ![d] = "connect"]
    /\ UNCHANGED <<state, tagVars, chanVars, eq, cntVars, slotVars, tt, conn, delivered,
                   errVars, upChan, dieClosed, sigVars, crIgst, crHold, wVars, closePc,
                   prod, ret, dropped, orig, nextId, cfgVars, logger, lockVars, cacheError, apiVars, cacheVars>>

\* getConnection returned a connection (also when the die signal ended the
\* IngestOK polling): install it under the lock, first half of goHot
CRInstall(d) ==
    /\ crPc[d] = "identify"
    /\ crIgst' = [crIgst EXCEPT ![d] = TRUE]
    /\ igst' = [igst EXCEPT ![d] = TRUE]
    /\ tagTranslators' = [tagTranslators EXCEPT ![d] = TRUE]
    /\ connDead' = goHot_connDead(connDead)
    /\ crPc' = [crPc EXCEPT ![d] = "hot"]
    /\ UNCHANGED <<state, tagVars, chanVars, eq, connHot, tt, conn, delivered, errVars,
                   upChan, dieClosed, sigVars, crHold, wVars, closePc, prod, ret,
                   dropped, ghostVars, cfgVars, logger, lockVars, cacheError, apiVars, cacheVars>>

\* second half of goHot (connHot, stopCache, upChan) and the hand-off
CRHot(d) ==
    /\ crPc[d] = "hot"
    /\ ncc[d].n < 1
    /\ connHot' = goHot_connHot(connHot)
    /\ cacheSignal' = IF connHot + 1 = 1 THEN sigSend(cacheSignal, FALSE) ELSE cacheSignal
    /\ upChan' = trySend(upChan)
    /\ ncc' = [ncc EXCEPT ![d].n = 1]
    /\ crPc' = [crPc EXCEPT ![d] = "wait"]
    /\ wfh' = [wfh EXCEPT !.hot = @ \/ wfh.pc = "wait"]
    /\ UNCHANGED <<state, tagVars, chanVars, eq, connDead, slotVars, tt, conn, delivered,
                   errVars, dieClosed, connErrNotif, crIgst, crHold, wVars, closePc,
                   prod, ret, dropped, ghostVars, cfgVars, logger, lockVars, cacheError, pushes, cacheRunning,
                   cache, cachePc, cacheBlk>>

\* getConnection returned a connection but Source fails: close it,
\* connFailed, return
CRSourceFail(d) ==
    /\ crPc[d] = "identify"
    /\ nFail < MaxFail
    /\ nFail' = nFail + 1
    /\ errChan < NDest
    /\ conn' = [conn EXCEPT ![d] = connClose(@)]
    /\ errDest' = Append(errDest, d)
    /\ errChan' = errChan + 1
    /\ ncc' = [ncc EXCEPT ![d].closed = TRUE]
    /\ crPc' = [crPc EXCEPT ![d] = "done"]
    /\ UNCHANGED <<state, tagVars, chanVars, eq, cntVars, slotVars, tt, delivered,
                   upChan, dieClosed, connErrNotif, crIgst, crHold, wVars, closePc,
                   prod, ret, dropped, orig, nextId, cfgVars, logger, lockVars, cacheError, apiVars, cacheVars>>

\* ------------------------------------------------------------------------
\* writeRelayRoutine
\* ------------------------------------------------------------------------
\* LookupTag: is the id the value of some name of the tag map
LookupTag(tag) == \E n \in DOMAIN tagMap : tagMap[n] = tag

\* "!im.eq.clear(nc.ig, nc.tt) || nc.ig.Sync() != nil" on connection c of
\* destination d: the queue, the connection and the indexer afterwards
ClearSync(d, c) ==
    LET r == eqClear(eq, c, tt[d]) IN
    IF r.ok /\ connOk(r.c)
    THEN [q |-> r.q, c |-> [r.c EXCEPT !.buf = <<>>],
          dl |-> delivered[d] \o r.c.buf, good |-> TRUE]
    ELSE [q |-> r.q, c |-> r.c, dl |-> delivered[d], good |-> FALSE]

\* shouldSched, with the channels as the write left them
shouldSched(ec, bc) == Len(igst) > 1 /\ Len(ec) = 0 /\ Len(bc) = 0

\* getNewConnSet after its non-blocking send: receive a connSet, clear the
\* emergency queue onto it and sync; ask again on failure; leave when the
\* hand-off channel is closed
WGetConn(d) ==
    /\ wPc[d] \in {"first", "getconn"}
    /\ IF ncc[d].n > 0
       THEN LET cs == ClearSync(d, conn[d]) IN
            /\ ncc' = [ncc EXCEPT ![d].n = 0]
            /\ eq' = cs.q
            /\ conn' = [conn EXCEPT ![d] = cs.c]
            /\ delivered' = [delivered EXCEPT ![d] = cs.dl]
            /\ wPc' = [wPc EXCEPT ![d] = IF cs.good THEN "main" ELSE @]
            /\ connErrNotif' = IF cs.good THEN connErrNotif
                               ELSE [connErrNotif EXCEPT ![d] = trySend(@)]
       ELSE /\ ncc[d].closed
            /\ wPc' = [wPc EXCEPT ![d] = "done"]
            /\ connErrNotif' = [connErrNotif EXCEPT ![d].closed = TRUE]
            /\ UNCHANGED <<ncc, eq, conn, delivered>>
    /\ UNCHANGED <<state, tagVars, chanVars, cntVars, slotVars, tt, errVars, upChan,
                   dieClosed, crVars, wHold, closePc, prod, ret, dropped, ghostVars,
                   cfgVars, logger, lockVars, cacheError, apiVars, cacheVars>>

\* the die signal (or the closed hand-off channel): Sync, Close, return
WExit(d) ==
    /\ wPc[d] = "main"
    /\ dieClosed \/ (ncc[d].closed /\ ncc[d].n = 0)
    /\ delivered' = [delivered EXCEPT ![d] = IF connOk(conn[d]) THEN @ \o conn[d].buf ELSE @]
    /\ conn' = [conn EXCEPT ![d] =
                  connClose(IF connOk(@) THEN [@ EXCEPT !.buf = <<>>] ELSE @)]
    /\ wPc' = [wPc EXCEPT ![d] = "done"]
    /\ connErrNotif' = [connErrNotif EXCEPT ![d].closed = TRUE]
    /\ UNCHANGED <<state, tagVars, chanVars, eq, cntVars, slotVars, tt, errVars, upChan,
                   dieClosed, ncc, crVars, wHold, closePc, prod, ret, dropped,
                   ghostVars, cfgVars, logger, lockVars, cacheError, apiVars, cacheVars>>

\* the outcome of one pass of the input loop after the translation:
\* what the writer does with the item taken from a channel
\*   "drop"    the tag is unknown to the muxer
\*   "recycle" recycleEntries, then getNewConnSet
\*   "write"   the write succeeded
EntryOutcome(d, e) ==
    LET tr == Translate(tt[d], e.tag) IN
    IF ~tr[2] THEN
        IF ~LookupTag(e.tag) THEN [k |-> "drop", h |-> NoHold]
        ELSE [k |-> "recycle", h |-> recycleEntries(e, <<>>, tt[d], FALSE)]
    ELSE IF ~connOk(conn[d])
         THEN [k |-> "recycle",
               h |-> recycleEntries([e EXCEPT !.tag = tr[1]], <<>>, tt[d], TRUE)]
         ELSE [k |-> "write", h |-> [NoHold EXCEPT !.e = [e EXCEPT !.tag = tr[1]]]]

BatchOutcome(d, b) ==
    LET bad == FirstBad(tt[d], b) IN
    IF bad # 0 THEN
        IF ~LookupTag(b[bad].tag) THEN [k |-> "drop", h |-> [NoHold EXCEPT !.ents = b], bad |-> bad]
        ELSE [k |-> "recycle",
              h |-> recycleEntries(NoEntry, RestorePrefix(tt[d], b, bad), tt[d], FALSE),
              bad |-> bad]
    ELSE IF ~connOk(conn[d])
         THEN [k |-> "recycle",
               h |-> recycleEntries(NoEntry, TranslateAll(tt[d], b), tt[d], TRUE),
               bad |-> 0]
         ELSE [k |-> "write", h |-> [NoHold EXCEPT !.ents = TranslateAll(tt[d], b)], bad |-> 0]

\* the entries a dropped batch takes with it
\* (known: was the entry's own tag in the tag table; those before the bad
\* index had been translated)
BatchDrops(b, bad) ==
    {[id |-> b[i].id, why |-> IF i = bad THEN "unknown" ELSE "batch",
      known |-> i < bad \/ (i > bad /\ LookupTag(b[i].tag))] : i \in 1..Len(b)}

\* after a write on connection c1: the shouldSched block
AfterWrite(d, c1, ec, bc) ==
    IF shouldSched(ec, bc) THEN ClearSync(d, c1)
    ELSE [q |-> eq, c |-> c1, dl |-> delivered[d], good |-> TRUE]

\* case e := <-eC
WEntry(d) ==
    /\ wPc[d] = "main"
    /\ Len(eChan) > 0
    /\ LET e == Head(eChan)
           o == EntryOutcome(d, e)
           aw == AfterWrite(d, connWriteEntry(conn[d], o.h.e), Tail(eChan), bChan)
       IN
       /\ eChan' = Tail(eChan)
       /\ dropped' = IF o.k = "drop" THEN dropped \cup {[id |-> e.id, why |-> "unknown", known |-> FALSE]}
                     ELSE dropped
       /\ wHold' = [wHold EXCEPT ![d] = IF o.k = "recycle" THEN o.h ELSE @]
       /\ IF o.k = "write"
          THEN /\ eq' = aw.q
               /\ conn' = [conn EXCEPT ![d] = aw.c]
               /\ delivered' = [delivered EXCEPT ![d] = aw.dl]
               /\ wPc' = [wPc EXCEPT ![d] = IF aw.good THEN "main" ELSE "getconn"]
               /\ connErrNotif' = IF aw.good THEN connErrNotif
                                  ELSE [connErrNotif EXCEPT ![d] = trySend(@)]
          ELSE /\ wPc' = [wPc EXCEPT ![d] = IF o.k = "recycle" THEN "recycle" ELSE "main"]
               /\ UNCHANGED <<eq, conn, delivered, connErrNotif>>
    /\ UNCHANGED <<state, tagVars, bChan, chanClosed, cntVars, slotVars, tt, errVars,
                   upChan, dieClosed, ncc, crVars, closePc, prod, ret, ghostVars,
                   cfgVars, logger, lockVars, cacheError, apiVars, cacheVars>>

\* case b := <-bC
WBatch(d) ==
    /\ wPc[d] = "main"
    /\ Len(bChan) > 0
    /\ LET b == Head(bChan)
           o == BatchOutcome(d, b)
           aw == AfterWrite(d, connWriteBatch(conn[d], o.h.ents), eChan, Tail(bChan))
       IN
       /\ bChan' = Tail(bChan)
       /\ dropped' = IF o.k = "drop" THEN dropped \cup BatchDrops(b, o.bad) ELSE dropped
       /\ wHold' = [wHold EXCEPT ![d] = IF o.k = "recycle" THEN o.h ELSE @]
       /\ IF o.k = "write"
          THEN /\ eq' = aw.q
               /\ conn' = [conn EXCEPT ![d] = aw.c]
               /\ delivered' = [delivered EXCEPT ![d] = aw.dl]
               /\ wPc' = [wPc EXCEPT ![d] = IF aw.good THEN "main" ELSE "getconn"]
               /\ connErrNotif' = IF aw.good THEN connErrNotif
                                  ELSE [connErrNotif EXCEPT ![d] = trySend(@)]
          ELSE /\ wPc' = [wPc EXCEPT ![d] = IF o.k = "recycle" THEN "recycle" ELSE "main"]
               /\ UNCHANGED <<eq, conn, delivered, connErrNotif>>
    /\ UNCHANGED <<state, tagVars, eChan, chanClosed, cntVars, slotVars, tt, errVars,
                   upChan, dieClosed, ncc, crVars, closePc, prod, ret, ghostVars,
                   cfgVars, logger, lockVars, cacheError, apiVars, cacheVars>>

\* case <-tmr.C: clear the emergency queue and sync
WTick(d) ==
    /\ wPc[d] = "main"
    /\ LET cs == ClearSync(d, conn[d]) IN
       /\ eq' = cs.q
       /\ conn' = [conn EXCEPT ![d] = cs.c]
       /\ delivered' = [delivered EXCEPT ![d] = cs.dl]
       /\ wPc' = [wPc EXCEPT ![d] = IF cs.good THEN "main" ELSE "getconn"]
       /\ connErrNotif' = IF cs.good THEN connErrNotif
                          ELSE [connErrNotif EXCEPT ![d] = trySend(@)]
    /\ UNCHANGED <<state, tagVars, chanVars, cntVars, slotVars, tt, errVars, upChan,
                   dieClosed, ncc, crVars, wHold, closePc, prod, ret, dropped,
                   ghostVars, cfgVars, logger, lockVars, cacheError, apiVars, cacheVars>>

\* recycleEntries in the writer, the select on the single entry: send it on
\* eChan, or (the channel stayed full until the timer fired) push {e, ents};
\* when nothing is left, getNewConnSet(csc, connFailure, false) and its send
WRecycleE(d) ==
    /\ wPc[d] = "recycle"
    /\ wHold[d].e # NoEntry
    /\ LET h == wHold[d]
           room == Len(eChan) < ChanSize
           r == eqPush(eq, h.e, h.ents)
           h1 == IF room THEN [h EXCEPT !.e = NoEntry]
                 ELSE IF r.err THEN NoHold
                 ELSE [h EXCEPT !.e = NoEntry, !.fired = TRUE]
       IN
       /\ room => ~chanClosed
       /\ eChan' = IF room THEN Append(eChan, h.e) ELSE eChan
       /\ eq' = IF room THEN eq ELSE r.q
       /\ dropped' = IF ~room /\ r.err THEN dropped \cup OverflowDrops(h) ELSE dropped
       /\ IF Len(h1.ents) = 0
          THEN /\ wHold' = [wHold EXCEPT ![d] = NoHold]
               /\ wPc' = [wPc EXCEPT ![d] = "getconn"]
               /\ connErrNotif' = [connErrNotif EXCEPT ![d] = trySend(@)]
          ELSE /\ wHold' = [wHold EXCEPT ![d] = h1]
               /\ UNCHANGED <<wPc, connErrNotif>>
    /\ UNCHANGED <<state, tagVars, bChan, chanClosed, cntVars, slotVars, tt, conn,
                   delivered, errVars, upChan, dieClosed, ncc, crVars, closePc, prod,
                   ret, ghostVars, cfgVars, logger, lockVars, cacheError, apiVars, cacheVars>>

\* recycleEntries in the writer, the select on the batch
WRecycleB(d) ==
    /\ wPc[d] = "recycle"
    /\ wHold[d].e = NoEntry
    /\ \E timer \in BOOLEAN :
       LET h == wHold[d]
           room == Len(bChan) < ChanSize
           r == eqPush(eq, NoEntry, h.ents)
       IN
       /\ IF timer THEN ~room \/ h.fired ELSE room /\ ~chanClosed
       /\ bChan' = IF timer THEN bChan ELSE Append(bChan, h.ents)
       /\ eq' = IF timer THEN r.q ELSE eq
       /\ dropped' = IF timer /\ r.err THEN dropped \cup OverflowDrops(h) ELSE dropped
    /\ wHold' = [wHold EXCEPT ![d] = NoHold]
    /\ wPc' = [wPc EXCEPT ![d] = "getconn"]
    /\ connErrNotif' = [connErrNotif EXCEPT ![d] = trySend(@)]
    /\ UNCHANGED <<state, tagVars, eChan, chanClosed, cntVars, slotVars, tt, conn,
                   delivered, errVars, upChan, dieClosed, ncc, crVars, closePc, prod,
                   ret, ghostVars, cfgVars, logger, lockVars, cacheError, apiVars, cacheVars>>

SyncContext_noDownCheck ==
    IF FALSE
    THEN [err |-> "AllConnsDown", conn |-> conn, dl |-> delivered]
    ELSE IF Len(eChan) > 0 \/ Len(bChan) > 0
    THEN [err |-> IF connHot = 0 THEN "AllConnsDown" ELSE "Timeout",
          conn |-> conn, dl |-> delivered]
    ELSE LET on(d) == d \in DOMAIN igst /\ igst[d]
             count == Cardinality({d \in Dests : on(d) /\ conn[d].st = "closed"})
         IN
         [err |-> IF count = Len(igst) THEN "AllConnsDown" ELSE "nil",
          conn |-> [d \in Dests |->
                      IF on(d) /\ connOk(conn[d]) THEN [conn[d] EXCEPT !.buf = <<>>]
                      ELSE conn[d]],
          dl |-> [d \in Dests |->
                      IF on(d) /\ connOk(conn[d]) THEN delivered[d] \o conn[d].buf
                      ELSE delivered[d]]]

\* ------------------------------------------------------------------------
\* Sync and Close
\* ------------------------------------------------------------------------
\* SyncContext.  It returns at once when nothing is hot and no cache runs;
\* with items left in a channel it ends with AllConnsDown or a timeout;
\* otherwise it syncs every installed connection.
SyncContext ==
    IF connHot = 0 /\ ~cacheRunning
    THEN [err |-> "AllConnsDown", conn |-> conn, dl |-> delivered]
    ELSE IF Len(eChan) > 0 \/ Len(bChan) > 0
    THEN [err |-> IF connHot = 0 THEN "AllConnsDown" ELSE "Timeout",
          conn |-> conn, dl |-> delivered]
    ELSE LET on(d) == d \in DOMAIN igst /\ igst[d]
             count == Cardinality({d \in Dests : on(d) /\ conn[d].st = "closed"})
         IN
         [err |-> IF count = Len(igst) THEN "AllConnsDown" ELSE "nil",
          conn |-> [d \in Dests |->
                      IF on(d) /\ connOk(conn[d]) THEN [conn[d] EXCEPT !.buf = <<>>]
                      ELSE conn[d]],
          dl |-> [d \in Dests |->
                      IF on(d) /\ connOk(conn[d]) THEN delivered[d] \o conn[d].buf
                      ELSE delivered[d]]]

\* the public Sync
Sync ==
    /\ conn' = SyncContext.conn
    /\ delivered' = SyncContext.dl
    /\ ret' = Ret("Sync", SyncContext.err, 0)
    /\ UNCHANGED <<state, tagVars, chanVars, eq, cntVars, slotVars, tt, errVars, upChan,
                   dieClosed, sigVars, crVars, wVars, closePc, prod, dropped,
                   ghostVars, cfgVars, logger, lockVars, cacheError, apiVars, cacheVars>>

\* Close, its first lines: im.Info (below the log level) and im.Sync(1s)
CloseSync ==
    /\ closePc \in {"idle", "done"}
    /\ closePc' = IF closePc = "idle" THEN "lock" ELSE "lock2"
    /\ conn' = SyncContext.conn
    /\ delivered' = SyncContext.dl
    /\ UNCHANGED <<state, tagVars, chanVars, eq, cntVars, slotVars, tt, errVars, upChan,
                   dieClosed, sigVars, crVars, wVars, prod, ret, dropped, ghostVars,
                   cfgVars, logger, lockVars, cacheError, apiVars, cacheVars>>

AlreadyClosed_never == FALSE
\* the test of im.state that opens the first locked section of Close
AlreadyClosed == state = "closed"

\* Close, the first locked section
CloseLock ==
    /\ closePc \in {"lock", "lock2"}
    /\ IF AlreadyClosed
       THEN /\ closePc' = "done"
            /\ ret' = Ret("Close", "nil", 2)
            /\ UNCHANGED <<state, dieClosed, eChan, bChan, dropped>>
       ELSE /\ state' = "closed"
            /\ dieClosed' = TRUE
            /\ closePc' = "wait"
            /\ IF connHot = 0 /\ ~cacheRunning
               THEN /\ eChan' = <<>> /\ bChan' = <<>>
                    /\ dropped' = dropped \cup
                          {[id |-> eChan[i].id, why |-> "close", known |-> TRUE] : i \in 1..Len(eChan)}
                          \cup UNION {{[id |-> bChan[i][j].id, why |-> "close", known |-> TRUE] :
                                         j \in 1..Len(bChan[i])} : i \in 1..Len(bChan)}
               ELSE UNCHANGED <<eChan, bChan, dropped>>
            /\ UNCHANGED ret
    /\ UNCHANGED <<tagVars, chanClosed, eq, cntVars, slotVars, tt, conn, delivered,
                   errVars, upChan, sigVars, crVars, wVars, prod, ghostVars, cfgVars, logger, lockVars, cacheError, apiVars,
                   cacheVars>>

\* Close: im.wg.Wait() returns, then close(im.cacheSignal) if the cache runs
CloseWait ==
    /\ closePc = "wait"
    /\ \A d \in Dests : crPc[d] \in {"off", "done"}
    /\ IF cacheRunning
       THEN /\ cacheSignal' = [cacheSignal EXCEPT !.closed = TRUE]
            /\ closePc' = "waitCache"
       ELSE /\ closePc' = "final"
            /\ UNCHANGED cacheSignal
    /\ UNCHANGED <<state, tagVars, chanVars, eq, cntVars, slotVars, tt, conn, delivered,
                   errVars, upChan, dieClosed, sigVars, crVars, wVars, prod, ret,
                   dropped, ghostVars, cfgVars, logger, lockVars, cacheError, apiVars, cacheRunning, cache, cachePc, cacheBlk>>

\* Close: im.cacheWg.Wait() returns
CloseCacheWait ==
    /\ closePc = "waitCache"
    /\ cachePc = "done"
    /\ closePc' = "final"
    /\ UNCHANGED <<state, tagVars, chanVars, eq, cntVars, slotVars, tt, conn, delivered,
                   errVars, upChan, dieClosed, sigVars, crVars, wVars, prod, ret,
                   dropped, ghostVars, cfgVars, logger, lockVars, cacheError, apiVars, cacheVars>>

\* what the last section of Close adds to a file-backed cache, in order:
\* the outstanding entries of every non-nil connection, the entry channel,
\* the batch channel, the emergency queue
RECURSIVE Flatten(_)
Flatten(ss) == IF Len(ss) = 0 THEN <<>> ELSE Head(ss) \o Flatten(Tail(ss))
RECURSIVE OutstandingFrom(_)
OutstandingFrom(d) ==
    IF d > NDest THEN <<>>
    ELSE (IF d \in DOMAIN igst /\ igst[d] THEN conn[d].buf ELSE <<>>) \o OutstandingFrom(d + 1)
EqEntries(q) ==
    Flatten([i \in 1..Len(q) |->
               (IF q[i].e # NoEntry THEN <<q[i].e>> ELSE <<>>) \o q[i].ents])
CloseDrain == OutstandingFrom(1) \o eChan \o Flatten(bChan) \o EqEntries(eq)

\* Close, the last locked section
CloseFinal ==
    /\ closePc = "final"
    /\ chanClosed' = TRUE
    /\ IF cacheEnabled /\ cacheFileBacked
       THEN /\ cache' = [cache EXCEPT
                           !.blocks = @ \o [i \in 1..Len(CloseDrain) |-> <<CloseDrain[i]>>],
                           !.tagList = tags, !.open = FALSE]
            /\ conn' = [d \in Dests |->
                          IF d \in DOMAIN igst /\ igst[d] THEN [conn[d] EXCEPT !.buf = <<>>]
                          ELSE conn[d]]
            /\ eChan' = <<>> /\ bChan' = <<>> /\ eq' = <<>>
       ELSE /\ cache' = IF cacheEnabled
                        THEN [cache EXCEPT !.tagList = tags, !.open = FALSE] ELSE cache
            /\ UNCHANGED <<conn, eChan, bChan, eq>>
    /\ upChan' = [upChan EXCEPT !.closed = TRUE]
    /\ closePc' = "done"
    /\ ret' = Ret("Close", "nil", 1)
    /\ UNCHANGED <<state, tagVars, cntVars, slotVars, tt, delivered, errVars, dieClosed,
                   sigVars, crVars, wVars, prod, dropped, ghostVars, cfgVars, logger, lockVars, cacheError, apiVars,
                   cacheRunning, cacheSignal, cachePc, cacheBlk>>

\* ------------------------------------------------------------------------
\* The cache: cacheRoutine, unloadCache, and the consumer the IngestCache
\* runs on the two channels between Start and Stop
\* ------------------------------------------------------------------------
\* im.cache.Start at the top of cacheRoutine
CacheStart ==
    /\ cachePc = "start"
    /\ cache' = [cache EXCEPT !.active = TRUE]
    /\ cachePc' = "loop"
    /\ UNCHANGED <<state, tagVars, chanVars, eq, cntVars, slotVars, tt, conn, delivered,
                   errVars, upChan, dieClosed, sigVars, crVars, wVars, closePc, prod,
                   ret, dropped, ghostVars, cfgVars, logger, lockVars, cacheError, apiVars, cacheRunning, cacheSignal, cacheBlk>>

\* im.cache.Start fails at the top of cacheRoutine: the error is recorded
CacheStartFail ==
    /\ cachePc = "start"
    /\ cacheError' = TRUE
    /\ cachePc' = "failed"
    /\ UNCHANGED <<state, tagVars, chanVars, eq, cntVars, slotVars, tt, conn, delivered,
                   errVars, upChan, dieClosed, sigVars, crVars, wVars, closePc, prod,
                   ret, dropped, ghostVars, cfgVars, logger, lockVars, apiVars, cacheRunning, cacheSignal,
                   cache, cacheBlk>>

\* ... and the routine returns with im.cacheRunning = false
CacheFailed ==
    /\ cachePc = "failed"
    /\ cacheRunning' = FALSE
    /\ cachePc' = "done"
    /\ UNCHANGED <<state, tagVars, chanVars, eq, cntVars, slotVars, tt, conn, delivered,
                   errVars, upChan, dieClosed, sigVars, crVars, wVars, closePc, prod,
                   ret, dropped, ghostVars, cfgVars, logger, lockVars, cacheError, apiVars, cacheSignal,
                   cache, cacheBlk>>

\* the receive on cacheSignal in the main loop, with the pass it starts
CacheSignal ==
    /\ cachePc = "loop"
    /\ IF Len(cacheSignal.q) > 0
       THEN /\ cacheSignal' = [cacheSignal EXCEPT !.q = Tail(@)]
            /\ IF connHot > 0
               THEN /\ cache' = [cache EXCEPT !.active = FALSE]
                    /\ cachePc' = IF cache.active THEN "unload" ELSE "loop"
               ELSE /\ cache' = [cache EXCEPT !.active = TRUE]
                    /\ cachePc' = "loop"
            /\ UNCHANGED cacheRunning
       ELSE /\ cacheSignal.closed
            /\ cache' = [cache EXCEPT !.active = FALSE]
            /\ cacheRunning' = FALSE
            /\ cachePc' = "done"
            /\ UNCHANGED cacheSignal
    /\ UNCHANGED <<state, tagVars, chanVars, eq, cntVars, slotVars, tt, conn, delivered,
                   errVars, upChan, dieClosed, sigVars, crVars, wVars, closePc, prod,
                   ret, dropped, ghostVars, cfgVars, logger, lockVars, cacheError, apiVars, cacheBlk>>

\* unloadCache: PopBlock; no block left means the cache was emptied
CachePop ==
    /\ cachePc = "unload"
    /\ IF Len(cache.blocks) = 0
       THEN /\ cachePc' = "loop"
            /\ UNCHANGED <<cache, cacheBlk>>
       ELSE /\ cacheBlk' = Head(cache.blocks)
            /\ cache' = [cache EXCEPT !.blocks = Tail(@)]
            /\ cachePc' = "select"
    /\ UNCHANGED <<state, tagVars, chanVars, eq, cntVars, slotVars, tt, conn, delivered,
                   errVars, upChan, dieClosed, sigVars, crVars, wVars, closePc, prod,
                   ret, dropped, ghostVars, cfgVars, logger, lockVars, cacheError, apiVars, cacheRunning, cacheSignal>>

\* unloadCache: the select sends the block on bChan
CacheSend ==
    /\ cachePc = "select"
    /\ Len(bChan) < ChanSize /\ ~chanClosed
    /\ bChan' = Append(bChan, cacheBlk)
    /\ cacheBlk' = <<>>
    /\ cachePc' = "unload"
    /\ UNCHANGED <<state, tagVars, eChan, chanClosed, eq, cntVars, slotVars, tt, conn,
                   delivered, errVars, upChan, dieClosed, sigVars, crVars, wVars,
                   closePc, prod, ret, dropped, ghostVars, cfgVars, logger, lockVars, cacheError, apiVars, cacheRunning,
                   cacheSignal, cache>>

\* unloadCache: the select receives from cacheSignal.  With no connection hot
\* (or the channel closed) the block goes back and the cache is restarted;
\* otherwise the loop goes on to the next PopBlock
CacheInterrupt ==
    /\ cachePc = "select"
    /\ Len(cacheSignal.q) > 0 \/ cacheSignal.closed
    /\ cacheSignal' = [cacheSignal EXCEPT !.q = IF Len(@) > 0 THEN Tail(@) ELSE @]
    /\ IF Len(cacheSignal.q) = 0 \/ connHot = 0
       THEN /\ cache' = [cache EXCEPT !.blocks = Append(@, cacheBlk), !.active = TRUE]
            /\ cachePc' = "loop"
       ELSE /\ cachePc' = "unload"
            /\ UNCHANGED cache
    /\ cacheBlk' = <<>>
    /\ UNCHANGED <<state, tagVars, chanVars, eq, cntVars, slotVars, tt, conn, delivered,
                   errVars, upChan, dieClosed, sigVars, crVars, wVars, closePc, prod,
                   ret, dropped, ghostVars, cfgVars, logger, lockVars, cacheError, apiVars, cacheRunning>>

\* the running cache takes an entry from eChan
CacheConsumeE ==
    /\ cache.active
    /\ Len(eChan) > 0
    /\ eChan' = Tail(eChan)
    /\ cache' = [cache EXCEPT !.blocks = Append(@, <<Head(eChan)>>)]
    /\ UNCHANGED <<state, tagVars, bChan, chanClosed, eq, cntVars, slotVars, tt, conn,
                   delivered, errVars, upChan, dieClosed, sigVars, crVars, wVars,
                   closePc, prod, ret, dropped, ghostVars, cfgVars, logger, lockVars, cacheError, apiVars, cacheRunning,
                   cacheSignal, cachePc, cacheBlk>>

\* the running cache takes a batch from bChan
CacheConsumeB ==
    /\ cache.active
    /\ Len(bChan) > 0
    /\ bChan' = Tail(bChan)
    /\ cache' = [cache EXCEPT !.blocks = Append(@, Head(bChan))]
    /\ UNCHANGED <<state, tagVars, eChan, chanClosed, eq, cntVars, slotVars, tt, conn,
                   delivered, errVars, upChan, dieClosed, sigVars, crVars, wVars,
                   closePc, prod, ret, dropped, ghostVars, cfgVars, logger, lockVars, cacheError, apiVars, cacheRunning,
                   cacheSignal, cachePc, cacheBlk>>

\* ------------------------------------------------------------------------
\* The public queries
\* ------------------------------------------------------------------------
\* a call that only reads the muxer and returns
Query(op, err, val) ==
    /\ ret' = Ret(op, err, val)
    /\ UNCHANGED <<state, tagVars, chanVars, eq, cntVars, slotVars, tt, conn, delivered,
                   errVars, upChan, dieClosed, sigVars, crVars, wVars, closePc, prod,
                   dropped, ghostVars, cfgVars, logger, lockVars, cacheError, apiVars, cacheVars>>

HotErr_never == FALSE
\* the state test of Hot
HotErr == state # "running"
Hot == IF HotErr THEN Query("Hot", "NotRunning", -1) ELSE Query("Hot", "nil", connHot)
Dead == IF state # "running" THEN Query("Dead", "NotRunning", -1) ELSE Query("Dead", "nil", connDead)
Size == IF state # "running" THEN Query("Size", "NotRunning", -1) ELSE Query("Size", "nil", NDest)

\* GetTag(name): the lookup in im.tagMap, with no look at im.state
GetTag(name) ==
    IF name \in DOMAIN tagMap THEN Query("GetTag", "nil", tagMap[name])
    ELSE Query("GetTag", "TagNotFound", 0)

\* the public LookupTag(tg): ok is returned as the error-free result
CallLookupTag(tag) ==
    IF LookupTag(tag) THEN Query("LookupTag", "nil", CHOOSE k \in DOMAIN tagMap : tagMap[k] = tag)
    ELSE Query("LookupTag", "notok", 0)

\* SourceIP: Source() of a connection fails once the connection is closed
SourceIP ==
    IF connHot = 0 \/ Len(igst) = 0 THEN Query("SourceIP", "NoActive", 0)
    ELSE LET on == {d \in DOMAIN igst : igst[d]}
             set == {d \in on : conn[d].st # "closed"}
         IN
         IF set # {} THEN Query("SourceIP", "nil", CHOOSE d \in set : \A x \in set : x <= d)
         ELSE IF on = {} THEN Query("SourceIP", "nil", 0)
         ELSE Query("SourceIP", "FailedRemote", 0)

\* WaitForHot(to), up to its loop: the first call of Hot
WaitForHot(to) ==
    /\ wfh.pc = "idle"
    /\ IF HotErr
       THEN /\ ret' = Ret("WaitForHot", "NotRunning", 0)
            /\ UNCHANGED wfh
       ELSE IF connHot > 0
       THEN /\ ret' = Ret("WaitForHot", "nil", 0)
            /\ UNCHANGED wfh
       ELSE /\ wfh' = [pc |-> "wait", to |-> to, at |-> At, hot |-> FALSE,
                        full |-> Len(errDest) = NDest]
            /\ UNCHANGED ret
    /\ UNCHANGED <<state, tagVars, chanVars, eq, cntVars, slotVars, tt, conn, delivered,
                   errVars, upChan, dieClosed, sigVars, crVars, wVars, closePc, prod,
                   dropped, ghostVars, cfgVars, logger, lockVars, cacheError, pushes, cacheVars>>

WfhIdle == [pc |-> "idle", to |-> FALSE, at |-> "empty", hot |-> FALSE, full |-> FALSE]
WfhRet(err) == [op |-> "WaitForHot", err |-> err, val |-> 0, at |-> wfh.at]

\* the loop's case <-im.upChan: a buffered value, or the closed channel
WaitUp ==
    /\ wfh.pc = "wait"
    /\ upChan.n > 0 \/ upChan.closed
    /\ upChan' = IF upChan.n > 0 THEN [upChan EXCEPT !.n = 0] ELSE upChan
    /\ wfh' = WfhIdle
    /\ ret' = WfhRet("nil")
    /\ UNCHANGED <<state, tagVars, chanVars, eq, cntVars, slotVars, tt, conn, delivered,
                   errVars, dieClosed, sigVars, crVars, wVars, closePc, prod,
                   dropped, ghostVars, cfgVars, logger, lockVars, cacheError, pushes, cacheVars>>

cacheHot_never == FALSE
\* "a hot, filebacked cache": the test made when the timeout has elapsed
cacheHot == cacheRunning /\ ~cacheError /\ cacheFileBacked

\* the loop's case <-tckr.C; expired says whether time.Since(ts) >= to
WaitTick(expired) ==
    /\ wfh.pc = "wait"
    /\ IF HotErr THEN wfh' = WfhIdle /\ ret' = WfhRet("NotRunning")
       ELSE IF connHot > 0 THEN wfh' = WfhIdle /\ ret' = WfhRet("nil")
       ELSE IF ~wfh.to \/ ~expired THEN UNCHANGED <<wfh, ret>>
       ELSE IF cacheHot THEN wfh' = WfhIdle /\ ret' = WfhRet("nil")
       ELSE wfh' = WfhIdle /\ ret' = WfhRet("ConnectionTimeout")
    /\ UNCHANGED <<state, tagVars, chanVars, eq, cntVars, slotVars, tt, conn, delivered,
                   errVars, upChan, dieClosed, sigVars, crVars, wVars, closePc, prod,
                   dropped, ghostVars, cfgVars, logger, lockVars, cacheError, pushes, cacheVars>>

\* the loop's case err := <-im.errChan
WaitErr ==
    /\ wfh.pc = "wait"
    /\ errChan > 0
    /\ errChan' = errChan - 1
    /\ IF Len(errDest) = NDest
       THEN wfh' = WfhIdle /\ ret' = WfhRet("AllFailed")
       ELSE UNCHANGED <<wfh, ret>>
    /\ UNCHANGED <<state, tagVars, chanVars, eq, cntVars, slotVars, tt, conn, delivered,
                   errDest, upChan, dieClosed, sigVars, crVars, wVars, closePc, prod,
                   dropped, ghostVars, cfgVars, logger, lockVars, cacheError, pushes, cacheVars>>

\* ------------------------------------------------------------------------
\* The emergency queue on its own: pushes and pops of one-entry items
\* ------------------------------------------------------------------------
EqItem == [id |-> 1, tag |-> 0]

\* emergencyQueue.push(e, nil); pushes counts the calls made since the last
\* pop, the overflow errors among them, and the length they started from
EqPush ==
    /\ pushes.n < MaxPush
    /\ eq' = eqPush(eq, EqItem, <<>>).q
    /\ pushes' = [pushes EXCEPT !.n = @ + 1,
                                !.overflow = IF eqPush(eq, EqItem, <<>>).err THEN @ + 1 ELSE @]
    /\ UNCHANGED <<state, tagVars, chanVars, cntVars, slotVars, tt, conn, delivered,
                   errVars, upChan, dieClosed, sigVars, crVars, wVars, closePc, prod, ret,
                   dropped, ghostVars, cfgVars, logger, lockVars, cacheError, wfh, cacheVars>>

\* emergencyQueue.pop()
EqPop ==
    /\ eqPop(eq).ok
    /\ eq' = eqPop(eq).q
    /\ pushes' = [n |-> 0, overflow |-> 0, base |-> Len(eq) - 1]
    /\ UNCHANGED <<state, tagVars, chanVars, cntVars, slotVars, tt, conn, delivered,
                   errVars, upChan, dieClosed, sigVars, crVars, wVars, closePc, prod, ret,
                   dropped, ghostVars, cfgVars, logger, lockVars, cacheError, wfh, cacheVars>>

\* ------------------------------------------------------------------------
\* Specifications
\* ------------------------------------------------------------------------
WriteTags == 0..(MaxNames - 1)
TagSeqs == [1..2 -> WriteTags]

\* the two routines of every destination while the muxer runs, and the
\* network
RunRoutines ==
    \E d \in Dests :
        \/ CRNotified(d) \/ CRDead(d) \/ CRRecycle(d)
        \/ CRConnect(d) \/ CRConnectFail(d) \/ CRIdentifyFail(d) \/ CRInstall(d)
        \/ CRHot(d) \/ CRSourceFail(d)
        \/ WGetConn(d) \/ WEntry(d) \/ WBatch(d) \/ WTick(d)
        \/ WRecycleE(d) \/ WRecycleB(d)
        \/ ConnBreak(d)

\* the steps the routines take only once Close has closed the die channel
ExitRoutines == \E d \in Dests : WExit(d) \/ CRDeadClosed(d)

CacheNext ==
    \/ CacheStart \/ CacheSignal \/ CachePop \/ CacheSend \/ CacheInterrupt
    \/ CacheConsumeE \/ CacheConsumeB

CloseNext == CloseSync \/ CloseLock \/ CloseWait \/ CloseCacheWait \/ CloseFinal

EntryNext == (\E tag \in WriteTags : WriteEntry("WriteEntry", tag)) \/ WriteEntrySend

\* a running muxer without a cache: producers, NegotiateTag, the routines
Next ==
    \/ Start
    \/ \E tag \in WriteTags \cup {GravwellTagId} : WriteEntry("WriteEntry", tag)
    \/ WriteEntrySend
    \/ \E tg \in TagSeqs : WriteBatch("WriteBatch", tg)
    \/ WriteBatchSend
    \/ \E name \in Names : NegotiateTag(name)
    \/ RunRoutines
Spec == Init /\ [][Next]_vars

\* a running muxer with a file-backed cache
InitCache == newIngestMuxer(TRUE, TRUE)
NextCache == Start \/ EntryNext \/ RunRoutines \/ CacheNext
SpecCache == InitCache /\ [][NextCache]_vars

\* the whole lifecycle, with and without a file-backed cache
InitAny == \E ce \in BOOLEAN : newIngestMuxer(ce, ce)
NextClose == Start \/ EntryNext \/ RunRoutines \/ ExitRoutines \/ CacheNext \/ CloseNext
SpecClose == InitAny /\ [][NextClose]_vars

\* the write calls and the accessors in every lifecycle state, without a
\* cache, on connections that do not break once they are up (the steps of
\* the routines that only a broken connection enables are left out)
SteadyRoutines ==
    \E d \in Dests :
        \/ CRNotified(d)
        \/ CRConnect(d) \/ CRConnectFail(d) \/ CRIdentifyFail(d) \/ CRInstall(d)
        \/ CRHot(d) \/ CRSourceFail(d)
        \/ WGetConn(d) \/ WEntry(d) \/ WBatch(d) \/ WTick(d)
WriteNext ==
    \/ \E op \in EntryOps : WriteEntry(op, 0)
    \/ \E op \in {"WriteEntry", "WriteEntryContext", "WriteEntryTimeout"} : WriteNil(op)
    \/ \E op \in BatchOps, tg \in {<<0, 0>>, <<>>} : WriteBatch(op, tg)
    \/ WriteEntrySend \/ WriteBatchSend \/ WriteAbort
    \/ Hot \/ Dead \/ Size
NextWrite ==
    \/ Start
    \/ CloseSync \/ CloseLock \/ CloseWait \/ CloseFinal
    \/ SteadyRoutines \/ ExitRoutines
    \/ WriteNext
SpecWrite == Init /\ [][NextWrite]_vars

\* the other public calls in every lifecycle state, with and without a
\* file-backed cache, on a muxer that carries no traffic (the steps that only
\* an entry enables are left out)
IdleRoutines ==
    \E d \in Dests :
        \/ CRNotified(d)
        \/ CRConnect(d) \/ CRConnectFail(d) \/ CRIdentifyFail(d) \/ CRInstall(d)
        \/ CRHot(d) \/ CRSourceFail(d)
        \/ WGetConn(d) \/ WTick(d)
QueryNext ==
    \/ \E name \in Names : GetTag(name) \/ NegotiateTag(name)
    \/ \E tag \in WriteTags : CallLookupTag(tag)
    \/ Sync \/ SourceIP
    \/ \E to \in BOOLEAN : WaitForHot(to) \/ WaitTick(to)
    \/ WaitUp \/ WaitErr
NextQuery ==
    \/ Start
    \/ CloseNext
    \/ IdleRoutines \/ ExitRoutines
    \/ CacheStart \/ CacheSignal \/ CachePop
    \/ QueryNext
SpecQuery == InitAny /\ [][NextQuery]_vars

\* the emergency queue
NextEQ == EqPush \/ EqPop
SpecEQ == Init /\ [][NextEQ]_vars

\* the tag table: construction from any configured tag list of up to
\* MaxCfgTags names, with and without a cache that stored a tag list, and
\* the calls on the tag table before Start
TagLists == UNION {[1..n -> Names] : n \in 0..MaxCfgTags}
InitTags ==
    \E ce \in BOOLEAN, cfg \in TagLists, ctags \in TagLists :
        /\ ~ce => ctags = <<>>
        /\ newIngestMuxerFrom(ce, ce, cfg, ctags)
NextTags ==
    \/ \E name \in Names : NegotiateTag(name) \/ GetTag(name)
    \/ \E tag \in 0..MaxCfgTags : CallLookupTag(tag)
SpecTags == InitTags /\ [][NextTags]_vars

\* WaitForHot on a muxer that carries no traffic, with and without a
\* file-backed cache: connections come up, break and fail for good, and the
\* cache may fail to start
WaitRoutines ==
    \E d \in Dests :
        \/ CRNotified(d) \/ CRDead(d)
        \/ CRConnect(d) \/ CRConnectFailOn(d, MaxFatal) \/ CRIdentifyFail(d)
        \/ CRInstall(d) \/ CRHot(d) \/ CRSourceFail(d)
        \/ WGetConn(d) \/ WTick(d)
        \/ ConnBreak(d)
WaitNext ==
    \/ \E to \in BOOLEAN : WaitForHot(to) \/ WaitTick(to)
    \/ WaitUp \/ WaitErr
NextWait ==
    \/ Start
    \/ WaitRoutines
    \/ CacheStart \/ CacheStartFail \/ CacheFailed \/ CacheSignal \/ CachePop
    \/ WaitNext
SpecWait == InitAny /\ [][NextWait]_vars

\* Sync on a muxer that carries traffic, with and without a file-backed cache
NextSync == Start \/ EntryNext \/ RunRoutines \/ CacheNext \/ Sync
SpecSync == InitAny /\ [][NextSync]_vars

\* The translator on its own: RegisterTag appends the ids an indexer
\* returns, a LocalTagId a translator covers is translated in place in an
\* entry, and the entry's tag is reversed again
RemoteIds == 1..MaxCfgTags \cup {GravwellTagId}
TTRegister(d, remote) ==
    /\ wPc[d] = "off"
    /\ Len(tt[d]) < MaxCfgTags
    /\ tt' = [tt EXCEPT ![d] = RegisterTag(@, Len(@), remote)[1]]
    /\ UNCHANGED <<state, tagVars, chanVars, eq, cntVars, slotVars, conn, delivered,
                   errVars, upChan, dieClosed, sigVars, crVars, wVars, closePc, prod, ret,
                   dropped, ghostVars, cfgVars, logger, lockVars, cacheError, apiVars, cacheVars>>
TTTranslate(d, tag) ==
    /\ \A x \in Dests : wPc[x] = "off"
    /\ tag = GravwellTagId \/ tag < Len(tt[d])
    /\ Translate(tt[d], tag)[2]
    /\ orig' = [orig EXCEPT ![1] = tag]
    /\ wHold' = [wHold EXCEPT ![d].e = [id |-> 1, tag |-> Translate(tt[d], tag)[1]]]
    /\ wPc' = [wPc EXCEPT ![d] = "translated"]
    /\ UNCHANGED <<state, tagVars, chanVars, eq, cntVars, slotVars, tt, conn, delivered,
                   errVars, upChan, dieClosed, sigVars, crVars, closePc, prod, ret,
                   dropped, nextId, nFail, cfgVars, logger, lockVars, cacheError, apiVars, cacheVars>>
TTReverse(d) ==
    /\ wPc[d] = "translated"
    /\ wHold' = [wHold EXCEPT ![d].e.tag = Reverse(tt[d], @)]
    /\ wPc' = [wPc EXCEPT ![d] = "reversed"]
    /\ UNCHANGED <<state, tagVars, chanVars, eq, cntVars, slotVars, tt, conn, delivered,
                   errVars, upChan, dieClosed, sigVars, crVars, closePc, prod, ret,
                   dropped, ghostVars, cfgVars, logger, lockVars, cacheError, apiVars, cacheVars>>
TTDone(d) ==
    /\ wPc[d] = "reversed"
    /\ wHold' = [wHold EXCEPT ![d] = NoHold]
    /\ wPc' = [wPc EXCEPT ![d] = "off"]
    /\ UNCHANGED <<state, tagVars, chanVars, eq, cntVars, slotVars, tt, conn, delivered,
                   errVars, upChan, dieClosed, sigVars, crVars, closePc, prod, ret,
                   dropped, ghostVars, cfgVars, logger, lockVars, cacheError, apiVars, cacheVars>>
NextTT ==
    \E d \in Dests :
        \/ \E remote \in RemoteIds : TTRegister(d, remote)
        \/ \E tag \in 0..(MaxCfgTags - 1) \cup {GravwellTagId} : TTTranslate(d, tag)
        \/ TTReverse(d) \/ TTDone(d)
SpecTT == Init /\ [][NextTT]_vars

\* The emergency queue under the routines: entries are parked as
\* recycleEntries parks them when its timer fires (alone, or as a batch of
\* one), popped, and cleared onto the connections as they come and go
Park(asBatch) ==
    /\ state = "running"
    /\ nextId <= MaxEntries
    /\ ~eqPush(eq, NoEntry, <<[id |-> nextId, tag |-> 0]>>).err
    /\ eq' = IF asBatch THEN eqPush(eq, NoEntry, <<[id |-> nextId, tag |-> 0]>>).q
             ELSE eqPush(eq, [id |-> nextId, tag |-> 0], <<>>).q
    /\ orig' = [orig EXCEPT ![nextId] = 0]
    /\ nextId' = nextId + 1
    /\ UNCHANGED <<state, tagVars, chanVars, cntVars, slotVars, tt, conn, delivered,
                   errVars, upChan, dieClosed, sigVars, crVars, wVars, closePc, prod, ret,
                   dropped, nFail, cfgVars, logger, lockVars, cacheError, apiVars, cacheVars>>
FifoRoutines ==
    \E d \in Dests :
        \/ CRNotified(d) \/ CRDead(d)
        \/ CRConnect(d) \/ CRInstall(d) \/ CRHot(d)
        \/ WGetConn(d) \/ WTick(d)
        \/ ConnBreak(d)
NextFifo ==
    \/ Start
    \/ \E asBatch \in BOOLEAN : Park(asBatch)
    \/ EqPop
    \/ FifoRoutines
SpecFifo == Init /\ [][NextFifo]_vars

\* recycleEntries on its own: it is called with an entry, a batch of one
\* entry, or both, and runs its two selects against channels nobody reads
RecycleCall(d, withE, withEnts, reverseTags) ==
    /\ wPc[d] \in {"off", "getconn"}
    /\ withE \/ withEnts
    /\ nextId + (IF withE /\ withEnts THEN 1 ELSE 0) <= MaxRecycled
    /\ LET e == IF withE THEN [id |-> nextId, tag |-> 0] ELSE NoEntry
           b == IF withEnts THEN <<[id |-> IF withE THEN nextId + 1 ELSE nextId, tag |-> 0]>>
                ELSE <<>>
       IN wHold' = [wHold EXCEPT ![d] = recycleEntries(e, b, tt[d], reverseTags)]
    /\ nextId' = nextId + (IF withE /\ withEnts THEN 2 ELSE 1)
    /\ wPc' = [wPc EXCEPT ![d] = "recycle"]
    /\ UNCHANGED <<state, tagVars, chanVars, eq, cntVars, slotVars, tt, conn, delivered,
                   errVars, upChan, dieClosed, sigVars, crVars, closePc, prod, ret,
                   dropped, orig, nFail, cfgVars, logger, lockVars, cacheError, apiVars, cacheVars>>
NextRecycle ==
    \E d \in Dests :
        \/ \E withE, withEnts, reverseTags \in BOOLEAN :
              RecycleCall(d, withE, withEnts, reverseTags)
        \/ WRecycleE(d) \/ WRecycleB(d)
SpecRecycle == Init /\ [][NextRecycle]_vars

\* ------------------------------------------------------------------------
\* Where an entry is
\* ------------------------------------------------------------------------
Count(sq, id) == Cardinality({i \in 1..Len(sq) : sq[i].id = id})
RECURSIVE SumOver(_, _)
SumOver(f, S) == IF S = {} THEN 0 ELSE LET x == CHOOSE y \in S : TRUE IN f[x] + SumOver(f, S \ {x})

\* the entries the muxer holds for delivery: in a channel, in the emergency
\* queue, in the hands of a routine, unconfirmed on a connection, in the cache
InFlight(id) ==
    Count(eChan, id) + Count(Flatten(bChan), id) + Count(EqEntries(eq), id)
    + SumOver([d \in Dests |-> Count(HoldEntries(wHold[d]), id)
                              + Count(HoldEntries(crHold[d]), id)
                              + Count(conn[d].buf, id)], Dests)
    + Count(Flatten(cache.blocks), id) + Count(cacheBlk, id)
\* the times the entry was confirmed at an indexer
Delivered(id) == SumOver([d \in Dests |-> Count(delivered[d], id)], Dests)
\* the entries a write call has accepted
Accepted == {id \in EntryIds : id < nextId /\ Count(HoldEntries(prod), id) = 0}
DropReason(id, whys) == \E r \in dropped : r.id = id /\ r.why \in whys

\* ------------------------------------------------------------------------
\* C1: an accepted entry is written to exactly one indexer connection unless
\* a drop reason applies.  As a state property of the running muxer: every
\* accepted entry is in exactly one place (on its way, or delivered once),
\* and an entry that is nowhere was dropped because its tag is unknown or
\* because the emergency queue overflowed.
\* ------------------------------------------------------------------------
C1_ExactlyOnce ==
    state = "running" =>
        \A id \in Accepted :
            /\ InFlight(id) + Delivered(id) <= 1
            /\ InFlight(id) + Delivered(id) = 0 => DropReason(id, {"unknown", "overflow"})

\* ------------------------------------------------------------------------
\* C2: in every state of a running muxer connHot + connDead equals the
\* number of destinations.
\* ------------------------------------------------------------------------
C2_SumIsSize == state = "running" => connHot + connDead = NDest

\* the connRoutines that are between the two atomic updates of goHot or of
\* goDead
MidUpdate == {d \in Dests : crPc[d] \in {"hot", "dead", "deadClosed"}}

\* C2 as the code has it: in every state of a running muxer connHot +
\* connDead equals the number of destinations less the connRoutines that
\* are between the two updates of goHot or goDead, so the sum is the number
\* of destinations whenever no goHot or goDead call is under way.
C2_SumBetweenUpdates ==
    state = "running" => connHot + connDead = NDest - Cardinality(MidUpdate)

\* one destination hot, the other gone dead after a failure, both calls
\* complete
C2_Witness ==
    /\ state = "running" /\ nFail = 1
    /\ connHot = 1 /\ connDead = 1
    /\ MidUpdate = {}

\* ------------------------------------------------------------------------
\* C3: every entry written to a connection carries the remote id that the
\* connection's indexer assigned to the tag name the producer gave the
\* entry, or the reserved Gravwell tag unchanged.
\* ------------------------------------------------------------------------
\* the entries written to the connection of destination d
Written(d) == conn[d].buf \o delivered[d]
RightTag(d, e) ==
    IF orig[e.id] = GravwellTagId THEN e.tag = GravwellTagId
    ELSE orig[e.id] < Len(tags) /\ e.tag = RemoteId(d, tags[orig[e.id] + 1])
C3_RemoteTag ==
    \A d \in Dests : \A i \in 1..Len(Written(d)) : RightTag(d, Written(d)[i])

\* ------------------------------------------------------------------------
\* C4: a writeRelayRoutine discards an entry, alone or inside a batch, only
\* when the entry's own LocalTagId is absent from the tag table.
\* ------------------------------------------------------------------------
C4_DropOnlyUnknown ==
    \A r \in dropped : r.why \in {"unknown", "batch"} => ~r.known

\* ------------------------------------------------------------------------
\* C5: the emergency queue never holds more than 256 items; a run of 260
\* pushes on the empty queue parks 256 items and returns 4 overflow errors.
\* ------------------------------------------------------------------------
C5_QueueBound ==
    /\ Len(eq) <= maxEmergencyListSize
    /\ pushes.base = 0 /\ pushes.n = MaxPush =>
          /\ Len(eq) = maxEmergencyListSize
          /\ pushes.overflow = MaxPush - maxEmergencyListSize

\* ------------------------------------------------------------------------
\* C6: the lifecycle state only moves empty -> running (a successful Start)
\* and running -> closed (Close); Start in any other state than empty
\* returns NotReady and changes nothing.
\* ------------------------------------------------------------------------
exceptRet == <<state, tags, tagMap, eChan, bChan, chanClosed, eq, connHot, connDead,
               igst, tagTranslators, tt, conn, delivered, errDest, errChan, upChan,
               dieClosed, connErrNotif, ncc, crPc, crIgst, crHold, wPc, wHold,
               closePc, prod, dropped, orig, nextId, nFail,
               cacheEnabled, cacheFileBacked, cacheRunning, cacheError, cacheSignal, cache,
               cachePc, cacheBlk, wfh, pushes>>
\* a step in which Start returns, called in another state than empty
StartRefused == ret' # ret /\ ret'.op = "Start" /\ state # "empty"
ByStart == state = "empty" /\ state' = "running" /\ ret'.op = "Start" /\ ret'.err = "nil"
ByClose == state' = "closed" /\ closePc = "lock" /\ closePc' = "wait"

C6_OnlyTwoMoves ==
    [][/\ (state' # state => (ByStart \/ (state = "running" /\ ByClose)))
       /\ (StartRefused => ret'.err = "NotReady" /\ UNCHANGED exceptRet)]_vars

\* C6 as the code has it: Close moves the state to closed from empty as well
\* as from running; the state moves in no other way, nothing leaves closed,
\* and Start in any other state than empty returns NotReady and changes
\* nothing.
C6_MovesWithEarlyClose ==
    [][/\ (state' # state => (ByStart \/ (state \in {"empty", "running"} /\ ByClose)))
       /\ (StartRefused => ret'.err = "NotReady" /\ UNCHANGED exceptRet)]_vars

\* Start refused on a muxer that ran and was closed
C6_Witness ==
    /\ state = "closed" /\ Len(igst) = NDest
    /\ ret.op = "Start" /\ ret.err = "NotReady" /\ ret.at = "closed"

\* ------------------------------------------------------------------------
\* C7: with a file-backed cache, when Close returns every entry a write
\* call accepted that was not delivered is in the cache, and the two
\* channels and the emergency queue are empty.  (An entry a writer dropped
\* for its tag, or at an overflow of the emergency queue, is not counted.)
\* ------------------------------------------------------------------------
InCache(id) == Count(Flatten(cache.blocks), id)
C7_CloseSpools ==
    closePc = "done" /\ cacheEnabled /\ cacheFileBacked =>
        /\ eChan = <<>> /\ bChan = <<>> /\ eq = <<>>
        /\ \A id \in Accepted :
              Delivered(id) = 0 =>
                  InCache(id) > 0 \/ DropReason(id, {"unknown", "overflow", "batch"})

\* ------------------------------------------------------------------------
\* C8: a second Close, called after the first has returned, returns nil
\* and has no effect: each of its steps leaves everything but the position
\* of the call and the returned value as it was.
\* ------------------------------------------------------------------------
exceptClose == <<state, tags, tagMap, eChan, bChan, chanClosed, eq, connHot, connDead,
                 igst, tagTranslators, tt, conn, delivered, errDest, errChan, upChan,
                 dieClosed, connErrNotif, ncc, crPc, crIgst, crHold, wPc, wHold,
                 prod, dropped, orig, nextId, nFail,
                 cacheEnabled, cacheFileBacked, cacheRunning, cacheError, cacheSignal, cache,
                 cachePc, cacheBlk, wfh, pushes>>
InSecondClose == closePc \in {"done", "lock2"} /\ closePc' # closePc
NoEffect ==
    /\ UNCHANGED exceptClose
    /\ closePc = "done" => closePc' = "lock2" /\ ret' = ret
    /\ closePc = "lock2" => closePc' = "done" /\ ret'.op = "Close" /\ ret'.err = "nil"
C8_SecondClose == [][InSecondClose => NoEffect]_vars

\* the second Close has returned, on a muxer that had delivered an entry
C8_Witness ==
    /\ closePc = "done" /\ ret.op = "Close" /\ ret.val = 2
    /\ \E d \in Dests : Len(delivered[d]) > 0

\* ------------------------------------------------------------------------
\* C9: called with an entry or a non-empty batch while the state is not
\* running, every write call returns NotRunning and enqueues nothing; Hot,
\* Dead and Size return NotRunning.  (ret.at is the state the call found,
\* ret.val the number of entries a write call was handed.)
\* ------------------------------------------------------------------------
Accessors == {"Hot", "Dead", "Size"}
RefusedCall ==
    /\ ret' # ret
    /\ ret'.at # "running"
    /\ (ret'.op \in EntryOps \cup BatchOps /\ ret'.val > 0) \/ ret'.op \in Accessors
C9_NotRunning ==
    [][RefusedCall => ret'.err = "NotRunning" /\ UNCHANGED exceptRet]_vars

\* a batch refused after Close has returned, on a muxer that had delivered
C9_Witness ==
    /\ ret.op = "WriteBatchContext" /\ ret.err = "NotRunning" /\ ret.at = "closed"
    /\ \E d \in Dests : Len(delivered[d]) > 0

\* ------------------------------------------------------------------------
\* C10: GetTag, LookupTag, NegotiateTag, Sync, WaitForHot and SourceIP,
\* called while the state is empty or closed, fail and leave the tag table,
\* the connections and the cache unchanged.
\* ------------------------------------------------------------------------
QueryOps == {"GetTag", "LookupTag", "NegotiateTag", "Sync", "WaitForHot", "SourceIP"}
TableConnsCache == <<tags, tagMap, igst, tagTranslators, tt, conn, cache>>
C10_AllRequireRunning ==
    [][ret' # ret /\ ret'.op \in QueryOps /\ ret'.at # "running" =>
          ret'.err # "nil" /\ UNCHANGED TableConnsCache]_vars

\* C10 as the code has it.  WaitForHot called while the state is not
\* running fails with NotRunning.  Sync and SourceIP called in the empty
\* state, or after Close has returned, fail (nothing is hot, no cache runs).
\* GetTag and LookupTag do not look at the state: they answer from the tag
\* table.  All five leave the tag table, the connections and the cache
\* unchanged.  NegotiateTag does not look at the state either: it returns
\* the id of a known name, and appends a new name to the tag table.
QueryOutside ==
    /\ ret'.op = "WaitForHot" /\ ret'.at # "running" =>
          ret'.err = "NotRunning" /\ UNCHANGED TableConnsCache
    /\ ret'.op \in {"Sync", "SourceIP"} /\ ret'.at \in {"empty", "closed"} =>
          ret'.err # "nil" /\ UNCHANGED TableConnsCache
    /\ ret'.op = "GetTag" /\ ret'.at # "running" =>
          /\ UNCHANGED TableConnsCache
          /\ ret'.err = "nil" => \E n \in DOMAIN tagMap : tagMap[n] = ret'.val
          /\ ret'.err # "nil" => ret'.err = "TagNotFound"
    /\ ret'.op = "LookupTag" /\ ret'.at # "running" =>
          /\ UNCHANGED TableConnsCache
          /\ ret'.err = "nil" => ret'.val \in DOMAIN tagMap
    /\ ret'.op = "NegotiateTag" /\ ret'.at # "running" =>
          /\ \A n \in DOMAIN tagMap : n \in DOMAIN tagMap' /\ tagMap'[n] = tagMap[n]
          /\ ret'.err = "nil" => \E n \in DOMAIN tagMap' : tagMap'[n] = ret'.val
          /\ Len(tags') \in {Len(tags), Len(tags) + 1}
C10_StateChecks == [][ret' # ret => QueryOutside]_vars

\* Sync refused after Close has returned on a muxer with a cache, the tag
\* table extended before
C10_Witness ==
    /\ ret.op = "Sync" /\ ret.err = "AllConnsDown" /\ ret.at = "closed"
    /\ cacheEnabled /\ Len(tags) = MaxNames

\* ------------------------------------------------------------------------
\* C11: on a running muxer with the entry channel full, no connection hot
\* and no cache running, a pending WriteEntry call does not return and its
\* entry is not dropped: every step leaves the call pending, returns no
\* WriteEntry and drops no such entry.  A WriteEntry that returns nil has put its entry at the end of
\* the entry channel, which had room.
\* ------------------------------------------------------------------------
BlockedWrite ==
    /\ state = "running" /\ prod.pc = "sendE" /\ prod.op = "WriteEntry"
    /\ Len(eChan) >= ChanSize
    /\ connHot = 0 /\ ~cacheRunning
EntryAccepted == ret' # ret /\ ret'.op = "WriteEntry" /\ ret'.err = "nil" /\ ret'.val = 1
C11_BlocksWhenFull ==
    [][/\ (BlockedWrite => (/\ prod' = prod
                            /\ ret' # ret => ret'.op # "WriteEntry"
                            /\ \A r \in dropped' : r.id # prod.e.id))
       /\ (EntryAccepted => (Len(eChan) < ChanSize /\ eChan' = Append(eChan, prod.e)))]_vars

\* a WriteEntry call waits on the full channel after the one connection
\* that was up has failed
C11_Witness == BlockedWrite /\ nFail = 1 /\ connDead = NDest

\* ------------------------------------------------------------------------
\* C12: for every name in the tag map, tags[tag_map[name]] is the name,
\* after construction from any configured tag list and after any sequence
\* of NegotiateTag calls.  (LocalTagId i is tags[i + 1].)
\* ------------------------------------------------------------------------
C12_MapPointsAtName ==
    \A n \in DOMAIN tagMap :
        tagMap[n] + 1 \in 1..Len(tags) /\ tags[tagMap[n] + 1] = n

\* NegotiateTag has appended a name to a table built from a stored tag list
\* and a configured list that names one tag twice
C12_Witness ==
    /\ ret.op = "NegotiateTag" /\ ret.err = "nil" /\ ret.val = Len(tags) - 1
    /\ cacheEnabled /\ Len(tags) = MaxCfgTags + 1
    /\ \E i, j \in 1..Len(tags) : i # j /\ tags[i] = tags[j]

\* ------------------------------------------------------------------------
\* C13: the index of a name in the tag table is its LocalTagId: for every
\* index i of the table, tag_map[tags[i]] = i.
\* ------------------------------------------------------------------------
C13_IndexIsId ==
    \A i \in 1..Len(tags) : tags[i] \in DOMAIN tagMap /\ tagMap[tags[i]] = i - 1

\* ------------------------------------------------------------------------
\* C14: for every connection installed in the muxer, its translator is no
\* longer than the tag table and slot i holds the remote id the connection's
\* indexer gives for the name tags[i], also when NegotiateTag calls
\* interleave with the construction and installation of the connection.
\* ------------------------------------------------------------------------
Installed(d) == d \in DOMAIN igst /\ igst[d] /\ tagTranslators[d]
C14_TranslatorMatchesTable ==
    \A d \in Dests :
        Installed(d) =>
            /\ Len(tt[d]) <= Len(tags)
            /\ \A i \in 1..Len(tt[d]) : tt[d][i] = RemoteId(d, tags[i])

\* two installed connections: one built before a NegotiateTag call that ran
\* before its installation, the other built after it
C14_Witness ==
    /\ Len(tags) = 2
    /\ \E d, x \in Dests :
          /\ Installed(d) /\ Len(tt[d]) = 1
          /\ Installed(x) /\ Len(tt[x]) = 2

\* the cache routine and the two counters step by step: goHot and goDead
\* as the atomic add followed, in a later step, by the non-blocking send on
\* cacheSignal; the cache routine as the receive followed by the load of
\* connHot
\* the select on connErrNotif fires: close the connection, goDead's atomic
\* decrement of connHot
GoDeadAdd(d) ==
    /\ crPc[d] = "wait"
    /\ connErrNotif[d].n > 0
    /\ connErrNotif' = [connErrNotif EXCEPT ![d].n = 0]
    /\ conn' = IF crIgst[d] THEN [conn EXCEPT ![d] = connClose(@)] ELSE conn
    /\ IF crIgst[d]
       THEN /\ connHot' = goDead_connHot(connHot)
            /\ crPc' = [crPc EXCEPT ![d] = IF goDead_connHot(connHot) = 0
                                           THEN "startCache" ELSE "dead"]
       ELSE /\ crPc' = [crPc EXCEPT ![d] = "connect"]
            /\ UNCHANGED connHot
    /\ UNCHANGED <<state, tagVars, chanVars, eq, connDead, slotVars, tt, delivered,
                   errVars, upChan, dieClosed, ncc, crIgst, crHold, wVars, closePc,
                   prod, ret, dropped, ghostVars, cfgVars, logger, lockVars, cacheError, apiVars, cacheVars>>

\* goDead saw the counter reach 0: startCache
GoDeadSignal(d) ==
    /\ crPc[d] = "startCache"
    /\ cacheSignal' = sigSend(cacheSignal, TRUE)
    /\ crPc' = [crPc EXCEPT ![d] = "dead"]
    /\ UNCHANGED <<state, tagVars, chanVars, eq, cntVars, slotVars, tt, conn, delivered,
                   errVars, upChan, dieClosed, sigVars, crIgst, crHold, wVars, closePc,
                   prod, ret, dropped, ghostVars, cfgVars, logger, lockVars, cacheError, apiVars, cacheRunning,
                   cache, cachePc, cacheBlk>>

\* goHot's atomic increment of connHot
GoHotAdd(d) ==
    /\ crPc[d] = "hot"
    /\ connHot' = goHot_connHot(connHot)
    /\ crPc' = [crPc EXCEPT ![d] = IF goHot_connHot(connHot) = 1 THEN "stopCache" ELSE "up"]
    /\ UNCHANGED <<state, tagVars, chanVars, eq, connDead, slotVars, tt, conn, delivered,
                   errVars, upChan, dieClosed, sigVars, crIgst, crHold, wVars, closePc,
                   prod, ret, dropped, ghostVars, cfgVars, logger, lockVars, cacheError, apiVars, cacheVars>>

\* goHot saw the counter reach 1: stopCache
GoHotSignal(d) ==
    /\ crPc[d] = "stopCache"
    /\ cacheSignal' = sigSend(cacheSignal, FALSE)
    /\ crPc' = [crPc EXCEPT ![d] = "up"]
    /\ UNCHANGED <<state, tagVars, chanVars, eq, cntVars, slotVars, tt, conn, delivered,
                   errVars, upChan, dieClosed, sigVars, crIgst, crHold, wVars, closePc,
                   prod, ret, dropped, ghostVars, cfgVars, logger, lockVars, cacheError, apiVars, cacheRunning,
                   cache, cachePc, cacheBlk>>

\* the end of goHot (upChan) and the hand-off of the connection
GoHotUp(d) ==
    /\ crPc[d] = "up"
    /\ ncc[d].n < 1
    /\ upChan' = trySend(upChan)
    /\ ncc' = [ncc EXCEPT ![d].n = 1]
    /\ crPc' = [crPc EXCEPT ![d] = "wait"]
    /\ wfh' = [wfh EXCEPT !.hot = @ \/ wfh.pc = "wait"]
    /\ UNCHANGED <<state, tagVars, chanVars, eq, cntVars, slotVars, tt, conn, delivered,
                   errVars, dieClosed, connErrNotif, crIgst, crHold, wVars, closePc,
                   prod, ret, dropped, ghostVars, cfgVars, logger, lockVars, cacheError, pushes, cacheVars>>

\* the receive on cacheSignal in the main loop of cacheRoutine
CacheReceive ==
    /\ cachePc = "loop"
    /\ Len(cacheSignal.q) > 0
    /\ cacheSignal' = [cacheSignal EXCEPT !.q = Tail(@)]
    /\ cachePc' = "signalled"
    /\ UNCHANGED <<state, tagVars, chanVars, eq, cntVars, slotVars, tt, conn, delivered,
                   errVars, upChan, dieClosed, sigVars, crVars, wVars, closePc, prod,
                   ret, dropped, ghostVars, cfgVars, logger, lockVars, cacheError, apiVars, cacheRunning,
                   cache, cacheBlk>>

\* ... and the pass it starts: the load of connHot, then Stop and
\* unloadCache, or Start, or nothing
CachePass ==
    /\ cachePc = "signalled"
    /\ IF connHot > 0
       THEN /\ cache' = [cache EXCEPT !.active = FALSE]
            /\ cachePc' = IF cache.active THEN "unload" ELSE "loop"
       ELSE /\ cache' = [cache EXCEPT !.active = TRUE]
            /\ cachePc' = "loop"
    /\ UNCHANGED <<state, tagVars, chanVars, eq, cntVars, slotVars, tt, conn, delivered,
                   errVars, upChan, dieClosed, sigVars, crVars, wVars, closePc, prod,
                   ret, dropped, ghostVars, cfgVars, logger, lockVars, cacheError, apiVars, cacheRunning,
                   cacheSignal, cacheBlk>>

\* unloadCache: the select receives from cacheSignal
UnloadReceive ==
    /\ cachePc = "select"
    /\ Len(cacheSignal.q) > 0
    /\ cacheSignal' = [cacheSignal EXCEPT !.q = Tail(@)]
    /\ cachePc' = "interrupted"
    /\ UNCHANGED <<state, tagVars, chanVars, eq, cntVars, slotVars, tt, conn, delivered,
                   errVars, upChan, dieClosed, sigVars, crVars, wVars, closePc, prod,
                   ret, dropped, ghostVars, cfgVars, logger, lockVars, cacheError, apiVars, cacheRunning,
                   cache, cacheBlk>>

\* ... and the load of connHot: at 0 the block goes back and the cache is
\* restarted, above 0 the loop goes on to the next PopBlock
UnloadInterrupted ==
    /\ cachePc = "interrupted"
    /\ IF connHot = 0
       THEN /\ cache' = [cache EXCEPT !.blocks = Append(@, cacheBlk), !.active = TRUE]
            /\ cachePc' = "loop"
       ELSE /\ cachePc' = "unload"
            /\ UNCHANGED cache
    /\ cacheBlk' = <<>>
    /\ UNCHANGED <<state, tagVars, chanVars, eq, cntVars, slotVars, tt, conn, delivered,
                   errVars, upChan, dieClosed, sigVars, crVars, wVars, closePc, prod,
                   ret, dropped, ghostVars, cfgVars, logger, lockVars, cacheError, apiVars, cacheRunning,
                   cacheSignal>>

SignalRoutines ==
    \E d \in Dests :
        \/ GoDeadAdd(d) \/ GoDeadSignal(d) \/ CRDead(d) \/ CRRecycle(d)
        \/ CRConnect(d) \/ CRConnectFail(d) \/ CRIdentifyFail(d) \/ CRInstall(d)
        \/ GoHotAdd(d) \/ GoHotSignal(d) \/ GoHotUp(d) \/ CRSourceFail(d)
        \/ WGetConn(d) \/ WEntry(d) \/ WBatch(d) \/ WTick(d)
        \/ WRecycleE(d) \/ WRecycleB(d)
        \/ ConnBreak(d)
\* the steps of the cacheRoutine goroutine
CacheRoutineStep ==
    \/ CacheStart \/ CacheReceive \/ CachePass
    \/ CachePop \/ CacheSend \/ UnloadReceive \/ UnloadInterrupted
NextSignal ==
    \/ Start \/ EntryNext \/ SignalRoutines
    \/ CacheRoutineStep \/ CacheConsumeE \/ CacheConsumeB
\* a goroutine that can take a step takes it: the cache routine, and a
\* connRoutine between the atomic add and the send on cacheSignal
SignalFairness ==
    /\ WF_vars(CacheRoutineStep)
    /\ \A d \in Dests : WF_vars(GoDeadSignal(d)) /\ WF_vars(GoHotSignal(d))
SpecSignal == InitCache /\ [][NextSignal]_vars /\ SignalFairness

\* ------------------------------------------------------------------------
\* im.mtx, and the calls that hold it, step by step
\* ------------------------------------------------------------------------
\* mtx.Lock() and mtx.RLock() return
CanLock == mtx.w = "none" /\ mtx.r = {}
CanRLock == mtx.w = "none"

\* NegotiateTag(name): CheckTag passed, im.mtx.Lock()
NTLock(name) ==
    /\ call.op = "none"
    /\ CanLock
    /\ mtx' = [mtx EXCEPT !.w = "NegotiateTag"]
    /\ call' = [NoCall EXCEPT !.op = "NegotiateTag", !.pc = "locked", !.name = name]
    /\ UNCHANGED <<state, tagVars, chanVars, eq, cntVars, slotVars, tt, conn, delivered,
                   errVars, upChan, dieClosed, sigVars, crVars, wVars, closePc, prod,
                   ret, dropped, ghostVars, cfgVars, logger, cacheError, apiVars, cacheVars>>

\* ... the lookup in im.tagMap, and for a new name the update of im.tags,
\* im.tagMap and the stored tag list; a return runs the deferred Unlock
NTLookup ==
    /\ call.op = "NegotiateTag" /\ call.pc = "locked"
    /\ IF call.name \in DOMAIN tagMap
       THEN /\ ret' = Ret("NegotiateTag", "nil", tagMap[call.name])
            /\ mtx' = Unlocked /\ call' = NoCall
            /\ UNCHANGED <<tagVars, cache>>
       ELSE LET ntags == Append(tags, call.name)
                nmap == RebuildTagMap(tagMap, ntags)
                stored == cacheEnabled /\ cacheFileBacked
            IN
            /\ tags' = ntags
            /\ tagMap' = nmap
            /\ IF stored /\ ~cache.open
               THEN /\ ret' = Ret("NegotiateTag", "cache", 0)
                    /\ mtx' = Unlocked /\ call' = NoCall
                    /\ UNCHANGED cache
               ELSE /\ cache' = IF stored THEN [cache EXCEPT !.tagList = ntags] ELSE cache
                    /\ call' = [call EXCEPT !.pc = "range", !.k = 1, !.tg = nmap[call.name]]
                    /\ UNCHANGED <<mtx, ret>>
    /\ UNCHANGED <<state, chanVars, eq, cntVars, slotVars, tt, conn, delivered, errVars,
                   upChan, dieClosed, sigVars, crVars, wVars, closePc, prod, dropped,
                   ghostVars, cfgVars, logger, cacheError, apiVars, cacheRunning, cacheSignal,
                   cachePc, cacheBlk>>

\* ... the loop over im.igst: the next slot; v.NegotiateTag(name) is called
\* on a slot that holds a connection; after the last slot the call returns
NTRange ==
    /\ call.op = "NegotiateTag" /\ call.pc = "range"
    /\ IF call.k > Len(igst)
       THEN /\ ret' = Ret("NegotiateTag", "nil", call.tg)
            /\ mtx' = Unlocked /\ call' = NoCall
       ELSE /\ call' = IF igst[call.k] THEN [call EXCEPT !.pc = "call"]
                       ELSE [call EXCEPT !.k = @ + 1]
            /\ UNCHANGED <<mtx, ret>>
    /\ UNCHANGED <<state, tagVars, chanVars, eq, cntVars, slotVars, tt, conn, delivered,
                   errVars, upChan, dieClosed, sigVars, crVars, wVars, closePc, prod,
                   dropped, ghostVars, cfgVars, logger, cacheError, apiVars, cacheVars>>

\* ... v.NegotiateTag(name) returns: RegisterTag, or v.Close()
NTCallReturn ==
    /\ call.op = "NegotiateTag" /\ call.pc = "call"
    /\ conn' = [conn EXCEPT ![call.k] = NegotiateOn(call.k, call.tg, call.name)[1]]
    /\ tt' = [tt EXCEPT ![call.k] = NegotiateOn(call.k, call.tg, call.name)[2]]
    /\ call' = [call EXCEPT !.pc = "range", !.k = @ + 1]
    /\ UNCHANGED <<state, tagVars, chanVars, eq, cntVars, slotVars, delivered,
                   errVars, upChan, dieClosed, sigVars, crVars, wVars, closePc, prod,
                   ret, dropped, ghostVars, cfgVars, logger, cacheError, apiVars, cacheVars, mtx>>

\* what is left unchanged by every step of Sync but the last of a pass
SyncRest == <<state, tagVars, chanVars, eq, cntVars, slotVars, tt, errVars, upChan,
              dieClosed, sigVars, crVars, wVars, closePc, prod, dropped,
              ghostVars, cfgVars, logger, cacheError, apiVars, cacheVars>>

\* SyncContext: the test of connHot and cacheRunning, then im.mtx.Lock()
SyncLock ==
    /\ call.op = "none"
    /\ IF connHot = 0 /\ ~cacheRunning
       THEN /\ ret' = Ret("Sync", "AllConnsDown", 0)
            /\ UNCHANGED <<mtx, call>>
       ELSE /\ CanLock
            /\ mtx' = [mtx EXCEPT !.w = "Sync"]
            /\ call' = [NoCall EXCEPT !.op = "Sync", !.pc = "loop"]
            /\ UNCHANGED ret
    /\ UNCHANGED <<SyncRest, conn, delivered>>

\* ... the test of the loop over the two channels: with an item left,
\* time.Sleep(10ms); with none, the loop over im.igst begins
SyncLoop ==
    /\ call.op = "Sync" /\ call.pc = "loop"
    /\ call' = IF Len(eChan) > 0 \/ Len(bChan) > 0
               THEN [call EXCEPT !.pc = "sleep"]
               ELSE [call EXCEPT !.pc = "range", !.k = 1]
    /\ UNCHANGED <<SyncRest, conn, delivered, ret, mtx>>

\* ... the sleep is over: the tests of connHot and of the timeout
SyncWake(timedOut) ==
    /\ call.op = "Sync" /\ call.pc = "sleep"
    /\ IF connHot = 0 \/ timedOut
       THEN /\ ret' = Ret("Sync", IF connHot = 0 THEN "AllConnsDown" ELSE "Timeout", 0)
            /\ mtx' = Unlocked /\ call' = NoCall
       ELSE /\ call' = [call EXCEPT !.pc = "loop"]
            /\ UNCHANGED <<mtx, ret>>
    /\ UNCHANGED <<SyncRest, conn, delivered>>

\* ... the loop over im.igst: v.Sync() is called on a slot that holds a
\* connection; after the last slot Unlock and return
SyncRange ==
    /\ call.op = "Sync" /\ call.pc = "range"
    /\ IF call.k > Len(igst)
       THEN /\ ret' = Ret("Sync", IF call.count = Len(igst) THEN "AllConnsDown" ELSE "nil", 0)
            /\ mtx' = Unlocked /\ call' = NoCall
       ELSE /\ call' = IF igst[call.k] THEN [call EXCEPT !.pc = "call"]
                       ELSE [call EXCEPT !.k = @ + 1]
            /\ UNCHANGED <<mtx, ret>>
    /\ UNCHANGED <<SyncRest, conn, delivered>>

\* ... v.Sync() returns: the buffered entries are delivered, or the
\* connection is closed and counted
SyncCallReturn ==
    /\ call.op = "Sync" /\ call.pc = "call"
    /\ LET d == call.k IN
       /\ conn' = IF connOk(conn[d]) THEN [conn EXCEPT ![d].buf = <<>>] ELSE conn
       /\ delivered' = IF connOk(conn[d])
                       THEN [delivered EXCEPT ![d] = @ \o conn[d].buf] ELSE delivered
       /\ call' = [call EXCEPT !.pc = "range", !.k = @ + 1,
                               !.count = IF conn[d].st = "closed" THEN @ + 1 ELSE @]
    /\ UNCHANGED <<SyncRest, ret, mtx>>

\* getConnection: im.mtx.RLock(), InitializeConnection is called
GetConnRLock(d) ==
    /\ crPc[d] = "connect"
    /\ Cardinality(DOMAIN tagMap) > 0
    /\ CanRLock
    /\ mtx' = [mtx EXCEPT !.r = @ \cup {d}]
    /\ crPc' = [crPc EXCEPT ![d] = "initialize"]
    /\ UNCHANGED <<state, tagVars, chanVars, eq, cntVars, slotVars, tt, conn, delivered,
                   errVars, upChan, dieClosed, sigVars, crIgst, crHold, wVars, closePc,
                   prod, ret, dropped, ghostVars, cfgVars, logger, cacheError, apiVars, cacheVars,
                   call>>

\* ... InitializeConnection returned a connection: newTagTrans,
\* im.mtx.RUnlock(); IdentifyIngester and the IngestOK polling follow
GetConnInitialized(d) ==
    /\ crPc[d] = "initialize"
    /\ conn' = [conn EXCEPT ![d] = NewConn]
    /\ tt' = [tt EXCEPT ![d] = newTagTrans(d)]
    /\ mtx' = [mtx EXCEPT !.r = @ \ {d}]
    /\ crPc' = [crPc EXCEPT ![d] = "identify"]
    /\ UNCHANGED <<state, tagVars, chanVars, eq, cntVars, slotVars, delivered, errVars,
                   upChan, dieClosed, sigVars, crIgst, crHold, wVars, closePc, prod,
                   ret, dropped, ghostVars, cfgVars, logger, cacheError, apiVars, cacheVars, call>>

\* the steps of the routines that lock im.mtx and unlock it before they
\* end (Start, connFailed, the install of a connection, the state test of
\* WriteEntry) wait for the lock; the others run as they are.  Single
\* entries are synced as they are written, so no connection fails here
\* with entries outstanding
LockRoutines ==
    \E d \in Dests :
        \/ CRNotified(d) \/ CRDead(d)
        \/ GetConnRLock(d) \/ GetConnInitialized(d)
        \/ CanLock /\ CRConnectFail(d)
        \/ CRIdentifyFail(d)
        \/ CanLock /\ CRInstall(d)
        \/ CRHot(d)
        \/ CanLock /\ CRSourceFail(d)
        \/ WGetConn(d) \/ WEntry(d) \/ WTick(d) \/ WRecycleE(d)
        \/ ConnBreak(d)
NextLock ==
    \/ CanLock /\ Start
    \/ CanRLock /\ WriteEntry("WriteEntry", 0)
    \/ WriteEntrySend
    \/ LockRoutines
    \/ \E name \in Names : NTLock(name)
    \/ NTLookup \/ NTRange \/ NTCallReturn
    \/ SyncLock \/ SyncLoop \/ (\E timedOut \in BOOLEAN : SyncWake(timedOut))
    \/ SyncRange \/ SyncCallReturn
SpecLock == Init /\ [][NextLock]_vars

\* ------------------------------------------------------------------------
\* The internal log calls of the muxer: Error, Warn and Info write an entry
\* tagged with the Gravwell tag through WriteEntry
\* ------------------------------------------------------------------------
\* the test at the top of Error, of Warn and of Info
ErrorWritten == ~(logLevel < gravwellError)
WarnWritten == ~(logLevel < gravwellWarn)
InfoWritten == ~(logLevel < gravwellInfo)
\* the entry gravwellWrite builds
LogEntry == [id |-> 0, tag |-> GravwellTagId]

\* the positions of a routine inside a log call: before the state test of
\* WriteEntry and before its channel send
LogPcs == {"logConnErr", "logIdentify", "logConnected"}
SendPcs == {"sendConnErr", "sendIdentify", "sendConnected"}
LogWritten(pc) ==
    CASE pc = "logConnErr" -> WarnWritten
      [] pc = "logIdentify" -> ErrorWritten
      [] pc = "logConnected" -> InfoWritten
SendPc(pc) ==
    CASE pc = "logConnErr" -> "sendConnErr"
      [] pc = "logIdentify" -> "sendIdentify"
      [] pc = "logConnected" -> "sendConnected"
\* where getConnection goes on after the log call: the retry of the loop,
\* or its return with the connection
AfterLog(pc) ==
    IF pc \in {"logConnected", "sendConnected"} THEN "identify" ELSE "connect"

\* getConnection: InitializeConnection fails with an error that is not
\* fatal: im.Warn("Connection error ..."), then the retry
GetConnError(d) ==
    /\ crPc[d] = "connect"
    /\ ~dieClosed
    /\ nFail < MaxFail
    /\ nFail' = nFail + 1
    /\ crPc' = [crPc EXCEPT ![d] = "logConnErr"]
    /\ UNCHANGED <<state, tagVars, chanVars, eq, cntVars, slotVars, tt, conn, delivered,
                   errVars, upChan, dieClosed, sigVars, crIgst, crHold, wVars, closePc,
                   prod, ret, dropped, orig, nextId, cfgVars, logger, lockVars, cacheError, apiVars,
                   cacheVars>>

\* getConnection: IdentifyIngester or IngestOK fails:
\* im.Error("Failed to identify ..."), then the loop starts over
GetConnIdentifyError(d) ==
    /\ crPc[d] = "connect"
    /\ ~dieClosed
    /\ nFail < MaxFail
    /\ nFail' = nFail + 1
    /\ crPc' = [crPc EXCEPT ![d] = "logIdentify"]
    /\ UNCHANGED <<state, tagVars, chanVars, eq, cntVars, slotVars, tt, conn, delivered,
                   errVars, upChan, dieClosed, sigVars, crIgst, crHold, wVars, closePc,
                   prod, ret, dropped, orig, nextId, cfgVars, logger, lockVars, cacheError, apiVars,
                   cacheVars>>

\* getConnection: the connection is initialized, identified and ready:
\* im.Info("Successfully connected ..."); when the die signal ended the
\* polling getConnection returns without the log call
GetConnOk(d) ==
    /\ crPc[d] = "connect"
    /\ Cardinality(DOMAIN tagMap) > 0
    /\ conn' = [conn EXCEPT ![d] = NewConn]
    /\ tt' = [tt EXCEPT ![d] = newTagTrans(d)]
    /\ crPc' = [crPc EXCEPT ![d] = IF dieClosed THEN "identify" ELSE "logConnected"]
    /\ UNCHANGED <<state, tagVars, chanVars, eq, cntVars, slotVars, delivered, errVars,
                   upChan, dieClosed, sigVars, crIgst, crHold, wVars, closePc, prod,
                   ret, dropped, ghostVars, cfgVars, logger, lockVars, cacheError, apiVars, cacheVars>>

\* a log call of the connRoutine up to the channel send of WriteEntry: the
\* level test, and runok under the read lock
CRLog(d) ==
    /\ crPc[d] \in LogPcs
    /\ crPc' = [crPc EXCEPT ![d] = IF LogWritten(@) /\ runok THEN SendPc(@) ELSE AfterLog(@)]
    /\ UNCHANGED <<state, tagVars, chanVars, eq, cntVars, slotVars, tt, conn, delivered,
                   errVars, upChan, dieClosed, sigVars, crIgst, crHold, wVars, closePc,
                   prod, ret, dropped, ghostVars, cfgVars, logger, lockVars, cacheError, apiVars,
                   cacheVars>>

\* ... im.eChan <- e
CRLogSend(d) ==
    /\ crPc[d] \in SendPcs
    /\ IF chanClosed
       THEN /\ crPc' = [crPc EXCEPT ![d] = "panic"]
            /\ UNCHANGED eChan
       ELSE /\ sendRoom(eChan)
            /\ eChan' = Append(eChan, LogEntry)
            /\ crPc' = [crPc EXCEPT ![d] = AfterLog(@)]
    /\ UNCHANGED <<state, tagVars, bChan, chanClosed, eq, cntVars, slotVars, tt, conn,
                   delivered, errVars, upChan, dieClosed, sigVars, crIgst, crHold, wVars,
                   closePc, prod, ret, dropped, ghostVars, cfgVars, logger, lockVars, cacheError,
                   apiVars, cacheVars>>

\* getNewConnSet as WGetConn, with the log call that follows the sync:
\* im.Info("connected to ...") or im.Info("re-connected to ...")
LogWGetConn(d) ==
    /\ wPc[d] \in {"first", "getconn"}
    /\ IF ncc[d].n > 0
       THEN LET cs == ClearSync(d, conn[d]) IN
            /\ ncc' = [ncc EXCEPT ![d].n = 0]
            /\ eq' = cs.q
            /\ conn' = [conn EXCEPT ![d] = cs.c]
            /\ delivered' = [delivered EXCEPT ![d] = cs.dl]
            /\ wPc' = [wPc EXCEPT ![d] = IF cs.good THEN "logConnected" ELSE @]
            /\ connErrNotif' = IF cs.good THEN connErrNotif
                               ELSE [connErrNotif EXCEPT ![d] = trySend(@)]
       ELSE /\ ncc[d].closed
            /\ wPc' = [wPc EXCEPT ![d] = "done"]
            /\ connErrNotif' = [connErrNotif EXCEPT ![d].closed = TRUE]
            /\ UNCHANGED <<ncc, eq, conn, delivered>>
    /\ UNCHANGED <<state, tagVars, chanVars, cntVars, slotVars, tt, errVars, upChan,
                   dieClosed, crVars, wHold, closePc, prod, ret, dropped, ghostVars,
                   cfgVars, logger, lockVars, cacheError, apiVars, cacheVars>>

\* the log call of the writer up to the channel send of WriteEntry
WLog(d) ==
    /\ wPc[d] = "logConnected"
    /\ wPc' = [wPc EXCEPT ![d] = IF InfoWritten /\ runok THEN "sendConnected" ELSE "main"]
    /\ UNCHANGED <<state, tagVars, chanVars, eq, cntVars, slotVars, tt, conn, delivered,
                   errVars, upChan, dieClosed, sigVars, crVars, wHold, closePc,
                   prod, ret, dropped, ghostVars, cfgVars, logger, lockVars, cacheError, apiVars,
                   cacheVars>>

\* ... im.eChan <- e
WLogSend(d) ==
    /\ wPc[d] = "sendConnected"
    /\ IF chanClosed
       THEN /\ wPc' = [wPc EXCEPT ![d] = "panic"]
            /\ UNCHANGED eChan
       ELSE /\ sendRoom(eChan)
            /\ eChan' = Append(eChan, LogEntry)
            /\ wPc' = [wPc EXCEPT ![d] = "main"]
    /\ UNCHANGED <<state, tagVars, bChan, chanClosed, eq, cntVars, slotVars, tt, conn,
                   delivered, errVars, upChan, dieClosed, sigVars, crVars, wHold,
                   closePc, prod, ret, dropped, ghostVars, cfgVars, logger, lockVars, cacheError,
                   apiVars, cacheVars>>

\* Close, its first line: im.Info("Ingester ... exiting") up to the channel
\* send of WriteEntry
CloseInfo ==
    /\ closePc = "idle"
    /\ closePc' = IF InfoWritten /\ runok THEN "sendInfo" ELSE "sync"
    /\ UNCHANGED <<state, tagVars, chanVars, eq, cntVars, slotVars, tt, conn, delivered,
                   errVars, upChan, dieClosed, sigVars, crVars, wVars, prod, ret,
                   dropped, ghostVars, cfgVars, logger, lockVars, cacheError, apiVars, cacheVars>>

\* ... im.eChan <- e
CloseInfoSend ==
    /\ closePc = "sendInfo"
    /\ ~chanClosed /\ sendRoom(eChan)
    /\ eChan' = Append(eChan, LogEntry)
    /\ closePc' = "sync"
    /\ UNCHANGED <<state, tagVars, bChan, chanClosed, eq, cntVars, slotVars, tt, conn,
                   delivered, errVars, upChan, dieClosed, sigVars, crVars, wVars, prod,
                   ret, dropped, ghostVars, cfgVars, logger, lockVars, cacheError, apiVars,
                   cacheVars>>

\* Close, its second line: im.Sync(time.Second)
CloseSyncLogged ==
    /\ closePc = "sync"
    /\ closePc' = "lock"
    /\ conn' = SyncContext.conn
    /\ delivered' = SyncContext.dl
    /\ UNCHANGED <<state, tagVars, chanVars, eq, cntVars, slotVars, tt, errVars, upChan,
                   dieClosed, sigVars, crVars, wVars, prod, ret, dropped, ghostVars,
                   cfgVars, logger, lockVars, cacheError, apiVars, cacheVars>>

\* a muxer without a cache at any log level, its connections failing while
\* they are set up and holding once they are up, producers of single
\* entries, and Close
LogLevels == {gravwellOff, gravwellInfo, gravwellWarn, gravwellError}
InitLog == \E lvl \in LogLevels : newIngestMuxerWith(FALSE, FALSE, <<1>>, <<>>, lvl)
\* the steps of connRoutine d and of its writer that the routine takes by
\* itself
LogRoutine(d) ==
    \/ CRNotified(d) \/ GetConnOk(d) \/ CRLog(d) \/ CRLogSend(d)
    \/ CRConnectFailOn(d, 0) \/ CRInstall(d) \/ CRHot(d) \/ CRDeadClosed(d)
    \/ LogWGetConn(d) \/ WLog(d) \/ WLogSend(d)
    \/ WEntry(d) \/ WTick(d) \/ WExit(d)
\* the steps of a Close call after its first
LogClose ==
    \/ CloseInfoSend \/ CloseSyncLogged
    \/ CloseLock \/ CloseWait \/ CloseFinal
NextLog ==
    \/ Start
    \/ WriteEntry("WriteEntry", 0) \/ WriteEntrySend
    \/ \E d \in Dests : LogRoutine(d) \/ GetConnError(d) \/ GetConnIdentifyError(d)
    \/ CloseInfo \/ LogClose
\* a goroutine that can take a step takes it; the failures of the network
\* and the calls of the producers and of Close may or may not come
LogFairness ==
    /\ \A d \in Dests : WF_vars(LogRoutine(d))
    /\ WF_vars(LogClose)
SpecLog == InitLog /\ [][NextLog]_vars /\ LogFairness

\* ------------------------------------------------------------------------
\* The Logger of package log.  Every method runs under l.mtx from its first
\* to its last statement and is one step
\* ------------------------------------------------------------------------
MuxerVars == <<state, tagVars, chanVars, eq, cntVars, slotVars, tt, conn, delivered,
               errVars, upChan, dieClosed, sigVars, crVars, wVars, closePc, prod, ret,
               dropped, ghostVars, cfgVars, lockVars, cacheError, apiVars, cacheVars>>
LogRet(op, err, w, val) == [op |-> op, err |-> err, w |-> w, val |-> val]

\* Logger.Close; lerr says that the Close of a writer returns an error
Close(lerr) ==
    /\ ~logger.exited
    /\ IF ~ready(logger)
       THEN logger' = [logger EXCEPT !.ret = LogRet("Close", "ErrNotOpen", "none", 0),
                                     !.closedRet = TRUE]
       ELSE logger' = [logger EXCEPT
                         !.hot = FALSE,
                         !.closes = [w \in LogWriters |-> @[w] + Attached(logger, w)],
                         !.ret = LogRet("Close", IF lerr THEN "WriterError" ELSE "nil", "none", 0),
                         !.closedRet = TRUE]
    /\ UNCHANGED MuxerVars

\* Logger.AddWriter
AddWriter(wtr) ==
    /\ ~logger.exited
    /\ IF wtr = "nil"
       THEN logger' = [logger EXCEPT !.ret = LogRet("AddWriter", "InvalidWriter", wtr, 0)]
       ELSE IF ~ready(logger)
       THEN logger' = [logger EXCEPT !.ret = LogRet("AddWriter", "ErrNotOpen", wtr, 0)]
       ELSE /\ Len(logger.wtrs) < MaxWtrs
            /\ logger' = [logger EXCEPT !.wtrs = Append(@, wtr),
                                        !.ret = LogRet("AddWriter", "nil", wtr, 0)]
    /\ UNCHANGED MuxerVars

\* Logger.DeleteWriter
DeleteWriter(wtr) ==
    /\ ~logger.exited
    /\ IF wtr = "nil"
       THEN logger' = [logger EXCEPT !.ret = LogRet("DeleteWriter", "InvalidWriter", wtr, 0)]
       ELSE IF ~ready(logger)
       THEN logger' = [logger EXCEPT !.ret = LogRet("DeleteWriter", "ErrNotOpen", wtr, 0)]
       ELSE logger' = [logger EXCEPT !.wtrs = SelectSeq(@, LAMBDA x : x # wtr),
                                     !.ret = LogRet("DeleteWriter", "nil", wtr, 0)]
    /\ UNCHANGED MuxerVars

\* Logger.SetLevel
SetLevel(lvl) ==
    /\ ~logger.exited
    /\ IF ~ready(logger)
       THEN logger' = [logger EXCEPT !.ret = LogRet("SetLevel", "ErrNotOpen", "none", lvl)]
       ELSE IF ~Valid(lvl)
       THEN logger' = [logger EXCEPT !.ret = LogRet("SetLevel", "ErrInvalidLevel", "none", lvl)]
       ELSE logger' = [logger EXCEPT !.lvl = lvl,
                                     !.ret = LogRet("SetLevel", "nil", "none", lvl)]
    /\ UNCHANGED MuxerVars

\* Logger.GetLevel
GetLevel ==
    /\ ~logger.exited
    /\ logger' = [logger EXCEPT
                    !.ret = LogRet("GetLevel", "nil", "none",
                                   IF ~ready(logger) THEN OFF ELSE logger.lvl)]
    /\ UNCHANGED MuxerVars

\* Logger.output, which Debug, Info, Warn, Error and Critical call with
\* their level; lerr says that a write returns an error
output(lvl, lerr) ==
    /\ ~logger.exited
    /\ IF ~ready(logger)
       THEN logger' = [logger EXCEPT !.ret = LogRet("output", "ErrNotOpen", "none", lvl)]
       ELSE IF logger.lvl <= lvl /\ logger.lvl # OFF
       THEN /\ \A w \in LogWriters : logger.lines[w] + Attached(logger, w) <= MaxLines
            /\ logger' = [logger EXCEPT
                            !.lines = [w \in LogWriters |-> @[w] + Attached(logger, w)],
                            !.ret = LogRet("output", IF lerr THEN "WriterError" ELSE "nil",
                                           "none", lvl)]
       ELSE logger' = [logger EXCEPT !.ret = LogRet("output", "nil", "none", lvl)]
    /\ UNCHANGED MuxerVars

\* Logger.FatalCode: the line goes to every writer in the list, every
\* writer is closed and the process ends
FatalCode ==
    /\ ~logger.exited
    /\ \A w \in LogWriters : logger.lines[w] + Attached(logger, w) <= MaxLines
    /\ logger' = [logger EXCEPT
                    !.lines = [w \in LogWriters |-> @[w] + Attached(logger, w)],
                    !.closes = [w \in LogWriters |-> @[w] + Attached(logger, w)],
                    !.ret = LogRet("FatalCode", "nil", "none", 0),
                    !.exited = TRUE]
    /\ UNCHANGED MuxerVars

\* a Logger made with New and the calls made on it, in any order
WriterInputs == LogWriters \cup {"nil"}
LevelInputs == OFF..(CRITICAL + 1)
NextLogger ==
    \/ \E lerr \in BOOLEAN : Close(lerr)
    \/ \E wtr \in WriterInputs : AddWriter(wtr) \/ DeleteWriter(wtr)
    \/ \E lvl \in LevelInputs : SetLevel(lvl)
    \/ GetLevel
    \/ \E lvl \in DEBUG..CRITICAL, lerr \in BOOLEAN : output(lvl, lerr)
    \/ FatalCode
SpecLogger == Init /\ [][NextLogger]_vars

\* ------------------------------------------------------------------------
\* C15: when NegotiateTag returns for a name that was not in the tag table,
\* the name has the id equal to the prior table length, and every connection
\* installed at that moment either has a translator that maps the new id to
\* the remote id its indexer gives the name, or has been closed.
\* ------------------------------------------------------------------------
NewTagServed(d, name) ==
    \/ conn'[d].st = "closed"
    \/ /\ Len(tt'[d]) > Len(tags)
       /\ Translate(tt'[d], Len(tags)) = <<RemoteId(d, name), TRUE>>
Negotiated(name) ==
    /\ tags' = Append(tags, name)
    /\ name \notin DOMAIN tagMap
    /\ tagMap'[name] = Len(tags)
    /\ ret'.op = "NegotiateTag"
    /\ ret'.err = "nil" => ret'.val = Len(tags)
    /\ \A d \in Dests : d \in DOMAIN igst /\ igst[d] => NewTagServed(d, name)
KnownNameCall ==
    /\ ret' # ret
    /\ ret'.op = "NegotiateTag" /\ ret'.err = "nil"
    /\ ret'.val < Len(tags)
NothingNegotiated ==
    /\ tags' = tags /\ tagMap' = tagMap
    /\ conn' = conn /\ tt' = tt /\ cache' = cache
    /\ \E n \in DOMAIN tagMap : tagMap[n] = ret'.val
C16_SecondCallSameId ==
    [][/\ \A n \in DOMAIN tagMap : n \in DOMAIN tagMap' /\ tagMap'[n] = tagMap[n]
       /\ KnownNameCall => NothingNegotiated
       /\ tags' # tags => tags'[Len(tags')] \notin DOMAIN tagMap]_vars

\* the first tag was asked for again after the table had grown, with a
\* connection installed whose translator covers the whole table
C16_Witness ==
    /\ ret.op = "NegotiateTag" /\ ret.err = "nil" /\ ret.val = 0
    /\ Len(tags) = 2
    /\ \E d \in Dests : Installed(d) /\ conn[d].st = "open" /\ Len(tt[d]) = 2

\* ------------------------------------------------------------------------
\* C17: when WaitForHot returns success, either conn_hot was greater than 0
\* at some moment during that call, or the timeout elapsed while a
\* file-backed cache was running without error.
\* ------------------------------------------------------------------------
\* a step in which a WaitForHot call returns, from its loop or at once
WfhReturns ==
    \/ wfh.pc = "wait" /\ wfh'.pc = "idle"
    \/ wfh.pc = "idle" /\ wfh'.pc = "idle" /\ ret' # ret /\ ret'.op = "WaitForHot"
HotDuringCall == connHot > 0 \/ wfh.hot
CacheCovers ==
    /\ wfh.pc = "wait" /\ wfh.to
    /\ cacheRunning /\ ~cacheError /\ cacheFileBacked
C17_SuccessMeansHot ==
    [][WfhReturns /\ ret'.err = "nil" => HotDuringCall \/ CacheCovers]_vars

\* ------------------------------------------------------------------------
\* C18: WaitForHot with a non-zero timeout on a running muxer where no
\* connection is hot returns success at the timeout when a file-backed
\* cache is running and has recorded no error.
\* ------------------------------------------------------------------------
\* a WaitForHot call returns from the ticker case of its loop: neither
\* upChan nor errChan is received from
TickReturn ==
    /\ wfh.pc = "wait" /\ wfh'.pc = "idle"
    /\ upChan' = upChan /\ ~upChan.closed
    /\ errChan' = errChan
C18_CacheMakesHot ==
    [][/\ TickReturn /\ wfh.to
       /\ state = "running" /\ connHot = 0
       /\ cacheRunning /\ ~cacheError /\ cacheFileBacked
       => ret'.op = "WaitForHot" /\ ret'.err = "nil"]_vars

\* WaitForHot has returned success on a muxer whose connections never came
\* up, with the cache running
C18_Witness ==
    /\ ret.op = "WaitForHot" /\ ret.err = "nil" /\ ret.at = "running"
    /\ wfh.pc = "idle"
    /\ state = "running" /\ connHot = 0 /\ upChan.n = 0
    /\ \A d \in Dests : ~crIgst[d]
    /\ cacheRunning /\ ~cacheError /\ cacheFileBacked

\* ------------------------------------------------------------------------
\* C19: on a running muxer in which every target has recorded a TargetError
\* and no connection is hot, a WaitForHot call returns the total-failure
\* error, whatever its timeout and whatever calls were made before: here,
\* calls that have received every notification sent on errChan.
\* ------------------------------------------------------------------------
C19_AllFailedReported ==
    [][/\ wfh.pc = "wait" /\ wfh'.pc = "idle"
       /\ wfh.full /\ state = "running" /\ connHot = 0
       /\ errChan = 0
       => ret'.op = "WaitForHot" /\ ret'.err = "AllFailed"]_vars

\* ------------------------------------------------------------------------
\* C20: Sync returns AllConnsDown when it is called while conn_hot is 0 and
\* the cache is not running.
\* ------------------------------------------------------------------------
AllDown == connHot = 0 /\ ~cacheRunning
SyncReturns == ret' # ret /\ ret'.op = "Sync"
C20_SyncAllDown ==
    [][/\ AllDown => SyncContext.err = "AllConnsDown"
       /\ SyncReturns /\ AllDown => ret'.err = "AllConnsDown" /\ conn' = conn]_vars

\* Sync has returned AllConnsDown on a running muxer without a cache, with
\* an open connection installed that has not been counted hot yet
C20_Witness ==
    /\ ret.op = "Sync" /\ ret.err = "AllConnsDown" /\ ret.at = "running"
    /\ state = "running" /\ connHot = 0 /\ ~cacheRunning
    /\ \E d \in Dests : Installed(d) /\ conn[d].st = "open" /\ crPc[d] = "hot"

\* ------------------------------------------------------------------------
\* C21: Sync fails with AllConnsDown only when conn_hot is 0 while the cache
\* is not running, or when every connection reports NotRunning on sync;
\* while the cache is running and conn_hot is 0 it waits for the channels
\* to empty or for the timeout.
\* ------------------------------------------------------------------------
AllNotRunning == \A d \in Dests : d \in DOMAIN igst /\ igst[d] /\ conn[d].st = "closed"
C21_AllDownOnlyTwoCases ==
    [][SyncReturns /\ ret'.err = "AllConnsDown" => AllDown \/ AllNotRunning]_vars

\* ------------------------------------------------------------------------
\* C22: for a translator whose remote ids are pairwise distinct and none of
\* which is the reserved Gravwell id, reversing the translation of a
\* LocalTagId the translator covers gives the LocalTagId back; the reserved
\* Gravwell tag is returned unchanged by Translate and by Reverse.
\* ------------------------------------------------------------------------
Distinct(t) == \A i, j \in 1..Len(t) : t[i] = t[j] => i = j
Translated(d) == wPc[d] \in {"translated", "reversed"}
GravwellKept(d) ==
    Translated(d) /\ orig[1] = GravwellTagId => wHold[d].e.tag = GravwellTagId
C22_RoundTrip ==
    \A d \in Dests :
        /\ GravwellKept(d)
        /\ wPc[d] = "reversed" /\ Distinct(tt[d]) /\ GravwellTagId \notin Range(tt[d])
           => wHold[d].e.tag = orig[1]

\* a full translator of distinct ids has given the last LocalTagId back
C22_Witness ==
    \E d \in Dests :
        /\ wPc[d] = "reversed" /\ Len(tt[d]) = MaxCfgTags
        /\ Distinct(tt[d]) /\ GravwellTagId \notin Range(tt[d])
        /\ orig[1] = MaxCfgTags - 1 /\ wHold[d].e.tag = orig[1]

\* C22 as stated: pairwise distinct remote ids are enough
C22_DistinctIsEnough ==
    \A d \in Dests :
        /\ GravwellKept(d)
        /\ wPc[d] = "reversed" /\ Distinct(tt[d]) => wHold[d].e.tag = orig[1]

\* ------------------------------------------------------------------------
\* C23: an entry, or a batch, that a writeRelayRoutine recycles carries the
\* LocalTagId its producer gave it: recycleEntries without reverseTags
\* changes no tag, and the translated prefix of a batch has been restored.
\* ------------------------------------------------------------------------
LocalTag(e) == e.tag = orig[e.id]
C23_RecycledKeepsTag ==
    \A d \in Dests :
        wPc[d] = "recycle" =>
            /\ wHold[d].e # NoEntry => LocalTag(wHold[d].e)
            /\ \A i \in 1..Len(wHold[d].ents) : LocalTag(wHold[d].ents[i])

\* ------------------------------------------------------------------------
\* C24: emergencyQueue.clear returns true only when it has drained the
\* queue with every write succeeding; when a translation or a write fails
\* it returns false, with the failed item back in the queue under its
\* LocalTagIds.
\* ------------------------------------------------------------------------
\* what clear would return to the writer of destination d in this state
ClearNow(d) == eqClear(eq, conn[d], tt[d])
\* the queue clear leaves behind after a failure at item k: the items
\* behind it, then item k as it was (without its entry when that was written)
PushedBack(q, k) ==
    /\ Len(q) = Len(eq) - k + 1
    /\ SubSeq(q, 1, Len(q) - 1) = SubSeq(eq, k + 1, Len(eq))
    /\ q[Len(q)].ents = eq[k].ents
    /\ q[Len(q)].e \in {eq[k].e, NoEntry}
C24_ClearReportsFailure ==
    \A d \in Dests :
        wPc[d] = "main" =>
            /\ ClearNow(d).ok <=> ClearNow(d).q = <<>>
            /\ ClearNow(d).q # <<>> => \E k \in 1..Len(eq) : PushedBack(ClearNow(d).q, k)

\* ------------------------------------------------------------------------
\* C25: the emergency queue is first-in first-out: items leave at the head
\* and arrive at the tail, so that the queue holds them in the order in
\* which they were parked (entry ids count the parkings; a failed clear
\* parks its item again), and clear writes the parked entries to the
\* connection in that order.
\* ------------------------------------------------------------------------
IsPrefix(a, b) == Len(a) <= Len(b) /\ SubSeq(b, 1, Len(a)) = a
Ids(sq) == [i \in 1..Len(sq) |-> sq[i].id]
\* the items that stay are the tail of the old queue and the head of the new
HeadPopTailPush ==
    \E k \in 0..Len(eq) : IsPrefix(SubSeq(eq, k + 1, Len(eq)), eq')
\* the entries clear adds to the connection of destination d
ClearWrites(d) == SubSeq(ClearNow(d).c.buf, Len(conn[d].buf) + 1, Len(ClearNow(d).c.buf))
ClearInOrder(d) ==
    /\ IsPrefix(conn[d].buf, ClearNow(d).c.buf)
    /\ IsPrefix(Ids(ClearWrites(d)), Ids(EqEntries(eq)))
    /\ ClearNow(d).q = <<>> => Ids(ClearWrites(d)) = Ids(EqEntries(eq))
InParkingOrder(ids) == \A i, j \in 1..Len(ids) : i < j => ids[i] < ids[j]
Placed == eChan \o Flatten(bChan) \o EqEntries(eq)
HotConns == {d \in Dests : crIgst[d] /\ crPc[d] = "wait"}
\* connRoutine d takes the notification of a failure of its connection
FailureTaken(d) == crPc[d] = "wait" /\ crPc'[d] = "dead"
\* ... takes the outstanding entries of the connection
OutstandingTaken(d) == crPc[d] = "dead" /\ crPc'[d] # "dead"
\* ... has sent or parked them
Reinjected(d) == crPc[d] = "recycle" /\ crPc'[d] = "connect"
\* ... hands the replacement to the writer
HandedOver(d) == crPc[d] = "hot" /\ crPc'[d] = "wait"
Restored(d, ents, buf) ==
    /\ Len(ents) = Len(buf)
    /\ \A i \in 1..Len(buf) :
          /\ ents[i].id = buf[i].id
          /\ Translate(tt[d], ents[i].tag) = <<buf[i].tag, TRUE>>
C28_CacheFollowsHot ==
    /\ <>[](cacheRunning /\ connHot = 0) => <>[](cache.active)
    /\ <>[](cacheRunning /\ connHot > 0) => <>[](~cache.active)

\* goHot is about to drop its signal on a full cacheSignal while the cache
\* is still active
C28_Witness ==
    /\ cacheRunning /\ connHot = 1 /\ cache.active
    /\ Len(cacheSignal.q) = 1
    /\ \E d \in Dests : crPc[d] = "stopCache"

\* ------------------------------------------------------------------------
\* C29: unloadCache loses no block: a block popped from the cache leaves
\* the select either on the batch channel or back in the cache, whatever
\* signal arrives and whatever conn_hot is at that moment.
\* ------------------------------------------------------------------------
\* unloadCache leaves its select with the block it popped
SelectLeft == cachePc = "select" /\ cachePc' # "select"
MayCallConnFailed(d) == crPc[d] \in {"connect", "identify", "deadClosed"}
C30_SendsNeverBlock ==
    \A d \in Dests :
        /\ MayCallConnFailed(d) => errChan < NDest
        /\ crPc[d] = "deadClosed" => ENABLED CRDeadClosed(d)
        /\ crPc[d] = "hot" => ENABLED CRHot(d)
        /\ crPc[d] = "wait" /\ (connErrNotif[d].n > 0 \/ connErrNotif[d].closed)
              => ENABLED CRNotified(d)
        /\ Len(cacheSignal.q) <= 1 /\ upChan.n <= 1 /\ connErrNotif[d].n <= 1
        /\ errChan <= NDest

\* connFailed is about to take the last place of errChan while upChan
\* holds a token
C30_Witness ==
    /\ errChan = NDest - 1 /\ upChan.n = 1
    /\ \E d \in Dests : crPc[d] = "deadClosed"

\* ------------------------------------------------------------------------
\* C31: no operation holds im.mtx while it is inside a call on a connection
\* or asleep, except getConnection, which holds the read lock during
\* InitializeConnection and the construction of the translator and gives it
\* back before IdentifyIngester and the IngestOK polling; NegotiateTag and
\* Sync hold no lock during their calls on the connections.
\* ------------------------------------------------------------------------
\* the public call is inside v.NegotiateTag or v.Sync, or asleep
CallOutside == call.pc \in {"call", "sleep"}
C31_NoLockAcrossCalls ==
    /\ CallOutside => mtx.w # call.op
    /\ \A d \in Dests : d \in mtx.r => crPc[d] = "initialize"

\* ------------------------------------------------------------------------
\* C32: after Close is called on a running muxer, under weak fairness and
\* in every interleaving (channels full or empty, routines in a reconnect
\* or in an internal log write), every writer and every connRoutine
\* eventually ends and Close returns.
\* ------------------------------------------------------------------------
CloseCalled == closePc # "idle"
AllEnded ==
    /\ closePc = "done"
    /\ \A d \in Dests : crPc[d] = "done" /\ wPc[d] = "done"
C32_CloseTerminates == (state = "running" /\ CloseCalled) ~> AllEnded

\* ------------------------------------------------------------------------
\* C33: the reconnect request of a writer is never lost: whenever a writer
\* makes its non-blocking send on connErrNotif the channel is empty and
\* takes the request, and whenever a writer waits on an empty hand-off
\* channel its connRoutine has a request pending, is inside a reconnect, or
\* has ended and closed the hand-off channel.
\* ------------------------------------------------------------------------
\* the writer is in getNewConnSet, at the receive from the hand-off channel
AwaitsConnSet(d) == wPc[d] \in {"first", "getconn"}
\* the connRoutine is between its receive from connErrNotif and its send
\* on the hand-off channel
InReconnect(d) == crPc[d] \notin {"off", "wait", "done", "panic"}
\* a step in which the writer makes the non-blocking send of getNewConnSet:
\* it enters getNewConnSet after an error, or it turns down a connection set
WriterNotifies(d) ==
    /\ AwaitsConnSet(d)'
    /\ wPc[d] \notin {"first", "getconn", "off"} \/ ncc'[d].n < ncc[d].n
RequestKept ==
    \A d \in Dests :
        AwaitsConnSet(d) /\ ncc[d].n = 0 =>
            \/ connErrNotif[d].n = 1
            \/ InReconnect(d)
            \/ crPc[d] = "done" /\ ncc[d].closed
AtLogSend(d) == crPc[d] \in SendPcs \/ wPc[d] = "sendConnected"
C34_LogCallReturns ==
    []~CloseCalled => \A d \in Dests : AtLogSend(d) ~> ~AtLogSend(d)

\* ------------------------------------------------------------------------
\* C35: no producer sends on the entry or batch channel after Close has
\* closed it: a WriteEntry or WriteBatch call concurrent with Close, also
\* one that is blocked on a full channel when Close starts, enqueues its
\* item or returns ErrNotRunning and never stands at a send on a closed
\* channel.
\* ------------------------------------------------------------------------
AtChannelSend == prod.pc \in {"sendE", "sendB"}
C35_NoSendOnClosed == ~(chanClosed /\ AtChannelSend) /\ prod.pc # "panic"

\* ------------------------------------------------------------------------
\* C36: every entry Close writes into the file-backed cache carries its
\* LocalTagId, the index into the tag list Close persists, also the
\* outstanding entries Close pulls from the connections, whose tags a
\* writer had translated to the RemoteTagIds of the destination.
\* ------------------------------------------------------------------------
\* Close stands before its last section on a muxer with a file-backed cache
ClosePersists == closePc = "final" /\ cacheEnabled /\ cacheFileBacked
C36_PersistedWithLocalTag ==
    ClosePersists =>
        \A i \in 1..Len(OutstandingFrom(1)) : LocalTag(OutstandingFrom(1)[i])

\* ------------------------------------------------------------------------
\* C37: once Logger.Close has returned the logger stays closed: a second
\* Close and every later AddWriter, DeleteWriter, SetLevel or log call
\* returns ErrNotOpen, GetLevel returns OFF, and nothing more is written to
\* or closed on any writer; Close itself closes each writer attached at
\* that moment and none that DeleteWriter removed earlier.
\* ------------------------------------------------------------------------
\* a step of a call on the logger made after a Close call has returned
\* (FatalCode, which returns to nobody, aside)
CallAfterClose == logger.closedRet /\ logger' # logger /\ ~logger'.exited
ErrorCalls == {"Close", "AddWriter", "DeleteWriter", "SetLevel", "output"}
WritersUntouched == logger'.closes = logger.closes /\ logger'.lines = logger.lines
\* a step of Close on a logger that is ready
CloseCloses ==
    logger' # logger /\ logger'.ret.op = "Close" /\ ready(logger) =>
        /\ \A w \in LogWriters :
              logger'.closes[w] > logger.closes[w] <=> \E i \in DOMAIN logger.wtrs : logger.wtrs[i] = w
        /\ logger'.lines = logger.lines
\* C37 for every writer handed to AddWriter and DeleteWriter, the nil writer
\* included
C37_StaysClosed ==
    [][/\ CallAfterClose =>
            /\ logger'.ret.op \in ErrorCalls => logger'.ret.err = "ErrNotOpen"
            /\ logger'.ret.op = "GetLevel" => logger'.ret.val = OFF
            /\ WritersUntouched
       /\ CloseCloses]_vars
\* C37 as the code has it: after a Close call has returned, a second Close,
\* SetLevel, the log calls, and AddWriter and DeleteWriter with a writer
\* that is not nil return ErrNotOpen, AddWriter and DeleteWriter with the nil
\* writer return the invalid-writer error, GetLevel returns OFF and no
\* writer is written to or closed; Close on an open logger closes the
\* writers in its list and no other.
C37_StaysClosedNonNil ==
    [][/\ CallAfterClose =>
            /\ logger'.ret.op \in ErrorCalls /\ logger'.ret.w # "nil"
                  => logger'.ret.err = "ErrNotOpen"
            /\ logger'.ret.op \in {"AddWriter", "DeleteWriter"} /\ logger'.ret.w = "nil"
                  => logger'.ret.err = "InvalidWriter"
            /\ logger'.ret.op = "GetLevel" => logger'.ret.val = OFF
            /\ WritersUntouched
       /\ CloseCloses]_vars
\* Close has closed the attached writer and not the one DeleteWriter had
\* removed, and a later AddWriter of a writer was turned down
C37_Witness ==
    /\ logger.closedRet /\ ~logger.hot /\ ~logger.exited
    /\ logger.closes["w1"] = 1 /\ logger.closes["w2"] = 0 /\ logger.lines["w2"] > 0
    /\ logger.ret.op = "AddWriter" /\ logger.ret.w = "w2" /\ logger.ret.err = "ErrNotOpen"

====
